---- MODULE Spec2Model ----
(***************************************************************************)
(* Model of src/main.py: the lead form service.  GET / issues a signed,    *)
(* time-stamped form token, POST /api/lead runs the ordered validation     *)
(* pipeline and relays an accepted submission to the Telegram gateway.     *)
(*                                                                         *)
(* Text is modelled as a sequence of characters (one string each), so that *)
(* str(), int(), split(), strip() and the regular expressions are computed *)
(* as Python computes them.  HMAC-SHA256 is modelled as an ideal MAC: a    *)
(* keyed, collision-free map from the signed text to a hex digest.         *)
(***************************************************************************)
EXTENDS Integers, Sequences, FiniteSets, TLC

VARIABLES
    now,            \* int(time.time()): the wall clock, in seconds
    env,            \* os.environ: TELEGRAM_BOT_TOKEN, TELEGRAM_CHAT_ID
    issued,         \* tokens rendered into pages by read_index, with their time
    vcall,          \* a direct call of _verify_form_token: argument, clock, outcome
    accepted,       \* issued tokens that a returned call of _verify_form_token accepted
    pc,             \* position of the create_lead coroutine
    request,        \* the request create_lead is handling
    body_read,      \* whether `await request.body()` has run on this request
    decoded,        \* whether the body was handed to the JSON / form decoder
    verify_clock,   \* `now` read by _verify_form_token inside create_lead (-1: not called)
    send_calls,     \* calls of _send_telegram_message made for this request
    gateway_posts,  \* opener.open() attempts made for this request
    gateway_answer, \* what the gateway did with this request's sendMessage call
    outbound,       \* text handed to _send_telegram_message
    response,       \* what create_lead returned (or the exception that left it)
    other           \* the frame of a second create_lead coroutine, suspended at an await

vars == <<now, env, issued, vcall, accepted, pc, request, body_read, decoded,
          verify_clock, send_calls, gateway_posts, gateway_answer, outbound, response,
          other>>

tokenVars == <<issued, vcall, accepted>>
leadVars == <<pc, request, body_read, decoded, verify_clock, send_calls,
              gateway_posts, gateway_answer, outbound, response>>

----------------------------------------------------------------------------
(* Program constants, src/main.py:27-33.                                   *)

MAX_BODY_BYTES == 32 * 1024
MAX_FIRST_NAME_LEN == 60
MAX_EMAIL_LEN == 120
MAX_PHONE_LEN == 32
MAX_MESSAGE_LEN == 4000
FORM_TOKEN_TTL_SECONDS == 30 * 60
FORM_TOKEN_SECRET == <<"k", "1">>

(* Length of hashlib.sha256(...).hexdigest().                              *)
DigestLen == 64

----------------------------------------------------------------------------
(* Bounds of the model.                                                    *)

MaxEpoch == 1      \* the clock runs over epochs 0..MaxEpoch of one TTL each
MaxDrift == 1      \* and over 0..MaxDrift seconds into each epoch
MaxIssued == 2     \* tokens kept in flight by read_index

----------------------------------------------------------------------------
(* Characters and text.                                                    *)

Digits == {"0", "1", "2", "3", "4", "5", "6", "7", "8", "9"}
(* The characters for which str.isspace() holds: stripped by str.strip()   *)
(* and matched by \s.  A character without a notation of its own is       *)
(* written by its code point, "U+00A0" for the no-break space, "U+0060"    *)
(* for the grave accent.                                                   *)
Whitespace ==
    {"\t", "\n", "U+000B", "\f", "\r", "U+001C", "U+001D",
    "U+001E", "U+001F", " ", "U+0085", "U+00A0", "U+1680", "U+2000", "U+2001",
    "U+2002", "U+2003", "U+2004", "U+2005", "U+2006", "U+2007", "U+2008",
    "U+2009", "U+200A", "U+2028", "U+2029", "U+202F", "U+205F", "U+3000"}
(* The whitespace that int() strips: the separators U+001C..U+001F are    *)
(* not among it.                                                           *)
IntWhitespace == Whitespace \ {"U+001C", "U+001D", "U+001E", "U+001F"}
UpperLatin == {"A", "B", "C", "D", "E", "F", "G", "H", "I", "J", "K", "L", "M",
               "N", "O", "P", "Q", "R", "S", "T", "U", "V", "W", "X", "Y", "Z"}
LowerLatin == {"a", "b", "c", "d", "e", "f", "g", "h", "i", "j", "k", "l", "m",
               "n", "o", "p", "q", "r", "s", "t", "u", "v", "w", "x", "y", "z"}
(* The 32 ASCII punctuation characters and the 33 ASCII control           *)
(* characters.                                                             *)
Punctuation ==
    {"!", "\"", "#", "$", "%", "&", "'", "(", ")", "*", "+",
    ",", "-", ".", "/", ":", ";", "<", "=", ">", "?", "@", "[", "\\", "]",
    "^", "_", "U+0060", "{", "|", "}", "~"}
AsciiControls ==
    {"U+0000", "U+0001", "U+0002", "U+0003", "U+0004",
    "U+0005", "U+0006", "U+0007", "U+0008", "\t", "\n", "U+000B", "\f", "\r",
    "U+000E", "U+000F", "U+0010", "U+0011", "U+0012", "U+0013", "U+0014",
    "U+0015", "U+0016", "U+0017", "U+0018", "U+0019", "U+001A", "U+001B",
    "U+001C", "U+001D", "U+001E", "U+001F", "U+007F"}
(* The 128 characters on which str.isascii() holds.                       *)
Ascii ==
    UpperLatin \cup LowerLatin \cup Digits \cup {" "} \cup Punctuation \cup AsciiControls
(* The letters of the ranges U+0410..U+044F of NAME_RE, with U+0401 and    *)
(* U+0451.                                                                 *)
Cyrillic ==
    {"U+0401", "U+0451", "U+0410", "U+0411", "U+0412", "U+0413",
    "U+0414", "U+0415", "U+0416", "U+0417", "U+0418", "U+0419", "U+041A",
    "U+041B", "U+041C", "U+041D", "U+041E", "U+041F", "U+0420", "U+0421",
    "U+0422", "U+0423", "U+0424", "U+0425", "U+0426", "U+0427", "U+0428",
    "U+0429", "U+042A", "U+042B", "U+042C", "U+042D", "U+042E", "U+042F",
    "U+0430", "U+0431", "U+0432", "U+0433", "U+0434", "U+0435", "U+0436",
    "U+0437", "U+0438", "U+0439", "U+043A", "U+043B", "U+043C", "U+043D",
    "U+043E", "U+043F", "U+0440", "U+0441", "U+0442", "U+0443", "U+0444",
    "U+0445", "U+0446", "U+0447", "U+0448", "U+0449", "U+044A", "U+044B",
    "U+044C", "U+044D", "U+044E", "U+044F"}
(* The decimal digits outside ASCII that int() reads (Unicode category    *)
(* Nd): one row per script, the digits zero to nine in order.              *)
DigitRows ==
    <<<<"U+0660", "U+0661", "U+0662", "U+0663", "U+0664", "U+0665", "U+0666", "U+0667", "U+0668", "U+0669">>,
      <<"U+06F0", "U+06F1", "U+06F2", "U+06F3", "U+06F4", "U+06F5", "U+06F6", "U+06F7", "U+06F8", "U+06F9">>,
      <<"U+07C0", "U+07C1", "U+07C2", "U+07C3", "U+07C4", "U+07C5", "U+07C6", "U+07C7", "U+07C8", "U+07C9">>,
      <<"U+0966", "U+0967", "U+0968", "U+0969", "U+096A", "U+096B", "U+096C", "U+096D", "U+096E", "U+096F">>,
      <<"U+09E6", "U+09E7", "U+09E8", "U+09E9", "U+09EA", "U+09EB", "U+09EC", "U+09ED", "U+09EE", "U+09EF">>,
      <<"U+0A66", "U+0A67", "U+0A68", "U+0A69", "U+0A6A", "U+0A6B", "U+0A6C", "U+0A6D", "U+0A6E", "U+0A6F">>,
      <<"U+0AE6", "U+0AE7", "U+0AE8", "U+0AE9", "U+0AEA", "U+0AEB", "U+0AEC", "U+0AED", "U+0AEE", "U+0AEF">>,
      <<"U+0B66", "U+0B67", "U+0B68", "U+0B69", "U+0B6A", "U+0B6B", "U+0B6C", "U+0B6D", "U+0B6E", "U+0B6F">>,
      <<"U+0BE6", "U+0BE7", "U+0BE8", "U+0BE9", "U+0BEA", "U+0BEB", "U+0BEC", "U+0BED", "U+0BEE", "U+0BEF">>,
      <<"U+0C66", "U+0C67", "U+0C68", "U+0C69", "U+0C6A", "U+0C6B", "U+0C6C", "U+0C6D", "U+0C6E", "U+0C6F">>,
      <<"U+0CE6", "U+0CE7", "U+0CE8", "U+0CE9", "U+0CEA", "U+0CEB", "U+0CEC", "U+0CED", "U+0CEE", "U+0CEF">>,
      <<"U+0D66", "U+0D67", "U+0D68", "U+0D69", "U+0D6A", "U+0D6B", "U+0D6C", "U+0D6D", "U+0D6E", "U+0D6F">>,
      <<"U+0DE6", "U+0DE7", "U+0DE8", "U+0DE9", "U+0DEA", "U+0DEB", "U+0DEC", "U+0DED", "U+0DEE", "U+0DEF">>,
      <<"U+0E50", "U+0E51", "U+0E52", "U+0E53", "U+0E54", "U+0E55", "U+0E56", "U+0E57", "U+0E58", "U+0E59">>,
      <<"U+0ED0", "U+0ED1", "U+0ED2", "U+0ED3", "U+0ED4", "U+0ED5", "U+0ED6", "U+0ED7", "U+0ED8", "U+0ED9">>,
      <<"U+0F20", "U+0F21", "U+0F22", "U+0F23", "U+0F24", "U+0F25", "U+0F26", "U+0F27", "U+0F28", "U+0F29">>,
      <<"U+1040", "U+1041", "U+1042", "U+1043", "U+1044", "U+1045", "U+1046", "U+1047", "U+1048", "U+1049">>,
      <<"U+1090", "U+1091", "U+1092", "U+1093", "U+1094", "U+1095", "U+1096", "U+1097", "U+1098", "U+1099">>,
      <<"U+17E0", "U+17E1", "U+17E2", "U+17E3", "U+17E4", "U+17E5", "U+17E6", "U+17E7", "U+17E8", "U+17E9">>,
      <<"U+1810", "U+1811", "U+1812", "U+1813", "U+1814", "U+1815", "U+1816", "U+1817", "U+1818", "U+1819">>,
      <<"U+1946", "U+1947", "U+1948", "U+1949", "U+194A", "U+194B", "U+194C", "U+194D", "U+194E", "U+194F">>,
      <<"U+19D0", "U+19D1", "U+19D2", "U+19D3", "U+19D4", "U+19D5", "U+19D6", "U+19D7", "U+19D8", "U+19D9">>,
      <<"U+1A80", "U+1A81", "U+1A82", "U+1A83", "U+1A84", "U+1A85", "U+1A86", "U+1A87", "U+1A88", "U+1A89">>,
      <<"U+1A90", "U+1A91", "U+1A92", "U+1A93", "U+1A94", "U+1A95", "U+1A96", "U+1A97", "U+1A98", "U+1A99">>,
      <<"U+1B50", "U+1B51", "U+1B52", "U+1B53", "U+1B54", "U+1B55", "U+1B56", "U+1B57", "U+1B58", "U+1B59">>,
      <<"U+1BB0", "U+1BB1", "U+1BB2", "U+1BB3", "U+1BB4", "U+1BB5", "U+1BB6", "U+1BB7", "U+1BB8", "U+1BB9">>,
      <<"U+1C40", "U+1C41", "U+1C42", "U+1C43", "U+1C44", "U+1C45", "U+1C46", "U+1C47", "U+1C48", "U+1C49">>,
      <<"U+1C50", "U+1C51", "U+1C52", "U+1C53", "U+1C54", "U+1C55", "U+1C56", "U+1C57", "U+1C58", "U+1C59">>,
      <<"U+A620", "U+A621", "U+A622", "U+A623", "U+A624", "U+A625", "U+A626", "U+A627", "U+A628", "U+A629">>,
      <<"U+A8D0", "U+A8D1", "U+A8D2", "U+A8D3", "U+A8D4", "U+A8D5", "U+A8D6", "U+A8D7", "U+A8D8", "U+A8D9">>,
      <<"U+A900", "U+A901", "U+A902", "U+A903", "U+A904", "U+A905", "U+A906", "U+A907", "U+A908", "U+A909">>,
      <<"U+A9D0", "U+A9D1", "U+A9D2", "U+A9D3", "U+A9D4", "U+A9D5", "U+A9D6", "U+A9D7", "U+A9D8", "U+A9D9">>,
      <<"U+A9F0", "U+A9F1", "U+A9F2", "U+A9F3", "U+A9F4", "U+A9F5", "U+A9F6", "U+A9F7", "U+A9F8", "U+A9F9">>,
      <<"U+AA50", "U+AA51", "U+AA52", "U+AA53", "U+AA54", "U+AA55", "U+AA56", "U+AA57", "U+AA58", "U+AA59">>,
      <<"U+ABF0", "U+ABF1", "U+ABF2", "U+ABF3", "U+ABF4", "U+ABF5", "U+ABF6", "U+ABF7", "U+ABF8", "U+ABF9">>,
      <<"U+FF10", "U+FF11", "U+FF12", "U+FF13", "U+FF14", "U+FF15", "U+FF16", "U+FF17", "U+FF18", "U+FF19">>,
      <<"U+104A0", "U+104A1", "U+104A2", "U+104A3", "U+104A4", "U+104A5", "U+104A6", "U+104A7", "U+104A8", "U+104A9">>,
      <<"U+10D30", "U+10D31", "U+10D32", "U+10D33", "U+10D34", "U+10D35", "U+10D36", "U+10D37", "U+10D38", "U+10D39">>,
      <<"U+11066", "U+11067", "U+11068", "U+11069", "U+1106A", "U+1106B", "U+1106C", "U+1106D", "U+1106E", "U+1106F">>,
      <<"U+110F0", "U+110F1", "U+110F2", "U+110F3", "U+110F4", "U+110F5", "U+110F6", "U+110F7", "U+110F8", "U+110F9">>,
      <<"U+11136", "U+11137", "U+11138", "U+11139", "U+1113A", "U+1113B", "U+1113C", "U+1113D", "U+1113E", "U+1113F">>,
      <<"U+111D0", "U+111D1", "U+111D2", "U+111D3", "U+111D4", "U+111D5", "U+111D6", "U+111D7", "U+111D8", "U+111D9">>,
      <<"U+112F0", "U+112F1", "U+112F2", "U+112F3", "U+112F4", "U+112F5", "U+112F6", "U+112F7", "U+112F8", "U+112F9">>,
      <<"U+11450", "U+11451", "U+11452", "U+11453", "U+11454", "U+11455", "U+11456", "U+11457", "U+11458", "U+11459">>,
      <<"U+114D0", "U+114D1", "U+114D2", "U+114D3", "U+114D4", "U+114D5", "U+114D6", "U+114D7", "U+114D8", "U+114D9">>,
      <<"U+11650", "U+11651", "U+11652", "U+11653", "U+11654", "U+11655", "U+11656", "U+11657", "U+11658", "U+11659">>,
      <<"U+116C0", "U+116C1", "U+116C2", "U+116C3", "U+116C4", "U+116C5", "U+116C6", "U+116C7", "U+116C8", "U+116C9">>,
      <<"U+11730", "U+11731", "U+11732", "U+11733", "U+11734", "U+11735", "U+11736", "U+11737", "U+11738", "U+11739">>,
      <<"U+118E0", "U+118E1", "U+118E2", "U+118E3", "U+118E4", "U+118E5", "U+118E6", "U+118E7", "U+118E8", "U+118E9">>,
      <<"U+11950", "U+11951", "U+11952", "U+11953", "U+11954", "U+11955", "U+11956", "U+11957", "U+11958", "U+11959">>,
      <<"U+11C50", "U+11C51", "U+11C52", "U+11C53", "U+11C54", "U+11C55", "U+11C56", "U+11C57", "U+11C58", "U+11C59">>,
      <<"U+11D50", "U+11D51", "U+11D52", "U+11D53", "U+11D54", "U+11D55", "U+11D56", "U+11D57", "U+11D58", "U+11D59">>,
      <<"U+11DA0", "U+11DA1", "U+11DA2", "U+11DA3", "U+11DA4", "U+11DA5", "U+11DA6", "U+11DA7", "U+11DA8", "U+11DA9">>,
      <<"U+16A60", "U+16A61", "U+16A62", "U+16A63", "U+16A64", "U+16A65", "U+16A66", "U+16A67", "U+16A68", "U+16A69">>,
      <<"U+16AC0", "U+16AC1", "U+16AC2", "U+16AC3", "U+16AC4", "U+16AC5", "U+16AC6", "U+16AC7", "U+16AC8", "U+16AC9">>,
      <<"U+16B50", "U+16B51", "U+16B52", "U+16B53", "U+16B54", "U+16B55", "U+16B56", "U+16B57", "U+16B58", "U+16B59">>,
      <<"U+1D7CE", "U+1D7CF", "U+1D7D0", "U+1D7D1", "U+1D7D2", "U+1D7D3", "U+1D7D4", "U+1D7D5", "U+1D7D6", "U+1D7D7">>,
      <<"U+1D7D8", "U+1D7D9", "U+1D7DA", "U+1D7DB", "U+1D7DC", "U+1D7DD", "U+1D7DE", "U+1D7DF", "U+1D7E0", "U+1D7E1">>,
      <<"U+1D7E2", "U+1D7E3", "U+1D7E4", "U+1D7E5", "U+1D7E6", "U+1D7E7", "U+1D7E8", "U+1D7E9", "U+1D7EA", "U+1D7EB">>,
      <<"U+1D7EC", "U+1D7ED", "U+1D7EE", "U+1D7EF", "U+1D7F0", "U+1D7F1", "U+1D7F2", "U+1D7F3", "U+1D7F4", "U+1D7F5">>,
      <<"U+1D7F6", "U+1D7F7", "U+1D7F8", "U+1D7F9", "U+1D7FA", "U+1D7FB", "U+1D7FC", "U+1D7FD", "U+1D7FE", "U+1D7FF">>,
      <<"U+1E140", "U+1E141", "U+1E142", "U+1E143", "U+1E144", "U+1E145", "U+1E146", "U+1E147", "U+1E148", "U+1E149">>,
      <<"U+1E2F0", "U+1E2F1", "U+1E2F2", "U+1E2F3", "U+1E2F4", "U+1E2F5", "U+1E2F6", "U+1E2F7", "U+1E2F8", "U+1E2F9">>,
      <<"U+1E950", "U+1E951", "U+1E952", "U+1E953", "U+1E954", "U+1E955", "U+1E956", "U+1E957", "U+1E958", "U+1E959">>,
      <<"U+1FBF0", "U+1FBF1", "U+1FBF2", "U+1FBF3", "U+1FBF4", "U+1FBF5", "U+1FBF6", "U+1FBF7", "U+1FBF8", "U+1FBF9">>>>
DecimalDigits ==
    Digits \cup {DigitRows[r][k] : r \in 1..Len(DigitRows), k \in 1..10}

(* The value of a decimal digit.                                           *)
DigitVal(c) ==
    CASE c = "0" -> 0 [] c = "1" -> 1 [] c = "2" -> 2 [] c = "3" -> 3
      [] c = "4" -> 4 [] c = "5" -> 5 [] c = "6" -> 6 [] c = "7" -> 7
      [] c = "8" -> 8 [] c = "9" -> 9
      [] OTHER ->
           LET r == CHOOSE r \in 1..Len(DigitRows) : \E k \in 1..10 : DigitRows[r][k] = c
           IN  (CHOOSE k \in 1..10 : DigitRows[r][k] = c) - 1

DigitChar(d) == <<"0", "1", "2", "3", "4", "5", "6", "7", "8", "9">>[d + 1]

(* The sequence of the characters f[1], ..., f[n] of a function f on 1..n. *)
chars(f) == <<>> \o f

(* str(n) for a non-negative integer.                                      *)
RECURSIVE StrNat(_)
StrNat(n) == IF n < 10 THEN <<DigitChar(n)>>
             ELSE Append(StrNat(n \div 10), DigitChar(n % 10))

(* str(n).                                                                 *)
Str(n) == IF n < 0 THEN <<"-">> \o StrNat(-n) ELSE StrNat(n)

(* s with the leading and trailing characters of the set blank removed.    *)
strip_of(s, blank) ==
    LET n == Len(s)
    IN  IF \A i \in 1..n : s[i] \in blank THEN <<>>
        ELSE LET lo == CHOOSE i \in 1..n :
                           s[i] \notin blank /\ \A j \in 1..(i - 1) : s[j] \in blank
                 hi == CHOOSE i \in 1..n :
                           s[i] \notin blank /\ \A j \in (i + 1)..n : s[j] \in blank
             IN  SubSeq(s, lo, hi)

(* s.strip(): leading and trailing whitespace removed.                     *)
strip(s) == strip_of(s, Whitespace)

(* s.split('.', 1): one element without a dot, else the text before the    *)
(* first dot and the text after it.                                        *)
split_dot(s) ==
    IF \A i \in 1..Len(s) : s[i] # "." THEN <<s>>
    ELSE LET d == CHOOSE i \in 1..Len(s) : s[i] = "." /\ \A j \in 1..(i - 1) : s[j] # "."
         IN  <<SubSeq(s, 1, d - 1), SubSeq(s, d + 1, Len(s))>>

RECURSIVE PositionalValue(_)
PositionalValue(ds) ==
    IF ds = <<>> THEN 0
    ELSE 10 * PositionalValue(SubSeq(ds, 1, Len(ds) - 1)) + DigitVal(ds[Len(ds)])

(* The value of a text of decimal digits; leading zeros add nothing.       *)
DigitsValue(ds) ==
    LET significant == {i \in 1..Len(ds) : DigitVal(ds[i]) # 0}
    IN  IF significant = {} THEN 0
        ELSE LET first == CHOOSE i \in significant : \A j \in significant : i <= j
             IN  PositionalValue(SubSeq(ds, first, Len(ds)))

(* sys.int_max_str_digits of the interpreter, at its default: int() of a   *)
(* text with more decimal digits raises ValueError.                        *)
int_max_str_digits == 4300

(* int(s) of Python: surrounding whitespace, an optional sign, decimal     *)
(* digits of any script, single underscores between digits, and no more    *)
(* than int_max_str_digits digits (sign, whitespace and underscores are    *)
(* not counted, leading zeros are).  ok = FALSE is ValueError.             *)
int(s) ==
    LET t == strip_of(s, IntWhitespace)
        signed == t # <<>> /\ t[1] \in {"+", "-"}
        body == IF signed THEN SubSeq(t, 2, Len(t)) ELSE t
        wellformed ==
            /\ body # <<>>
            /\ \A i \in 1..Len(body) : body[i] \in DecimalDigits \cup {"_"}
            /\ body[1] \in DecimalDigits
            /\ body[Len(body)] \in DecimalDigits
            /\ \A i \in 1..(Len(body) - 1) : ~(body[i] = "_" /\ body[i + 1] = "_")
        ds == SelectSeq(body, LAMBDA c : c \in DecimalDigits)
    IN  IF ~wellformed \/ Len(ds) > int_max_str_digits THEN [ok |-> FALSE, val |-> 0]
        ELSE [ok |-> TRUE,
              val |-> IF signed /\ t[1] = "-" THEN -DigitsValue(ds) ELSE DigitsValue(ds)]

----------------------------------------------------------------------------
(* hmac.new(key, msg, sha256).hexdigest() as an ideal MAC: the digest is a *)
(* text of hex digits from which the key and the signed text can be read   *)
(* back, so two digests are equal only when key and text are.  Each        *)
(* character is written in a prefix-free code (a digit by itself, any      *)
(* other character by three hex digits that start with a..e), the key and  *)
(* the text are closed by "f0" and "ff", and the result is padded with "0" *)
(* to DigestLen.  A key and text whose code is longer than DigestLen have  *)
(* a longer digest; the texts the program signs, str() of a clock value,   *)
(* are far shorter.                                                        *)

HexDigits ==
    <<"0", "1", "2", "3", "4", "5", "6", "7", "8", "9", "a", "b", "c", "d", "e", "f">>

(* The characters other than the ASCII digits, in the order of their       *)
(* codes.                                                                  *)
CodedChars ==
    <<"U+0000", "U+0001", "U+0002", "U+0003", "U+0004",
      "U+0005", "U+0006", "U+0007", "U+0008", "\t", "\n", "U+000B", "\f",
      "\r", "U+000E", "U+000F", "U+0010", "U+0011", "U+0012", "U+0013",
      "U+0014", "U+0015", "U+0016", "U+0017", "U+0018", "U+0019", "U+001A",
      "U+001B", "U+001C", "U+001D", "U+001E", "U+001F", " ", "!", "\"", "#",
      "$", "%", "&", "'", "(", ")", "*", "+", ",", "-", ".", "/", ":", ";",
      "<", "=", ">", "?", "@", "A", "B", "C", "D", "E", "F", "G", "H", "I",
      "J", "K", "L", "M", "N", "O", "P", "Q", "R", "S", "T", "U", "V", "W",
      "X", "Y", "Z", "[", "\\", "]", "^", "_", "U+0060", "a", "b", "c", "d",
      "e", "f", "g", "h", "i", "j", "k", "l", "m", "n", "o", "p", "q", "r",
      "s", "t", "u", "v", "w", "x", "y", "z", "{", "|", "}", "~", "U+007F",
      "U+0401", "U+0451", "U+0410", "U+0411", "U+0412", "U+0413", "U+0414",
      "U+0415", "U+0416", "U+0417", "U+0418", "U+0419", "U+041A", "U+041B",
      "U+041C", "U+041D", "U+041E", "U+041F", "U+0420", "U+0421", "U+0422",
      "U+0423", "U+0424", "U+0425", "U+0426", "U+0427", "U+0428", "U+0429",
      "U+042A", "U+042B", "U+042C", "U+042D", "U+042E", "U+042F", "U+0430",
      "U+0431", "U+0432", "U+0433", "U+0434", "U+0435", "U+0436", "U+0437",
      "U+0438", "U+0439", "U+043A", "U+043B", "U+043C", "U+043D", "U+043E",
      "U+043F", "U+0440", "U+0441", "U+0442", "U+0443", "U+0444", "U+0445",
      "U+0446", "U+0447", "U+0448", "U+0449", "U+044A", "U+044B", "U+044C",
      "U+044D", "U+044E", "U+044F", "U+0085", "U+00A0", "U+1680", "U+2000",
      "U+2001", "U+2002", "U+2003", "U+2004", "U+2005", "U+2006", "U+2007",
      "U+2008", "U+2009", "U+200A", "U+2028", "U+2029", "U+202F", "U+205F",
      "U+3000", "U+0660", "U+0661", "U+0662", "U+0663", "U+0664", "U+0665",
      "U+0666", "U+0667", "U+0668", "U+0669", "U+06F0", "U+06F1", "U+06F2",
      "U+06F3", "U+06F4", "U+06F5", "U+06F6", "U+06F7", "U+06F8", "U+06F9",
      "U+07C0", "U+07C1", "U+07C2", "U+07C3", "U+07C4", "U+07C5", "U+07C6",
      "U+07C7", "U+07C8", "U+07C9", "U+0966", "U+0967", "U+0968", "U+0969",
      "U+096A", "U+096B", "U+096C", "U+096D", "U+096E", "U+096F", "U+09E6",
      "U+09E7", "U+09E8", "U+09E9", "U+09EA", "U+09EB", "U+09EC", "U+09ED",
      "U+09EE", "U+09EF", "U+0A66", "U+0A67", "U+0A68", "U+0A69", "U+0A6A",
      "U+0A6B", "U+0A6C", "U+0A6D", "U+0A6E", "U+0A6F", "U+0AE6", "U+0AE7",
      "U+0AE8", "U+0AE9", "U+0AEA", "U+0AEB", "U+0AEC", "U+0AED", "U+0AEE",
      "U+0AEF", "U+0B66", "U+0B67", "U+0B68", "U+0B69", "U+0B6A", "U+0B6B",
      "U+0B6C", "U+0B6D", "U+0B6E", "U+0B6F", "U+0BE6", "U+0BE7", "U+0BE8",
      "U+0BE9", "U+0BEA", "U+0BEB", "U+0BEC", "U+0BED", "U+0BEE", "U+0BEF",
      "U+0C66", "U+0C67", "U+0C68", "U+0C69", "U+0C6A", "U+0C6B", "U+0C6C",
      "U+0C6D", "U+0C6E", "U+0C6F", "U+0CE6", "U+0CE7", "U+0CE8", "U+0CE9",
      "U+0CEA", "U+0CEB", "U+0CEC", "U+0CED", "U+0CEE", "U+0CEF", "U+0D66",
      "U+0D67", "U+0D68", "U+0D69", "U+0D6A", "U+0D6B", "U+0D6C", "U+0D6D",
      "U+0D6E", "U+0D6F", "U+0DE6", "U+0DE7", "U+0DE8", "U+0DE9", "U+0DEA",
      "U+0DEB", "U+0DEC", "U+0DED", "U+0DEE", "U+0DEF", "U+0E50", "U+0E51",
      "U+0E52", "U+0E53", "U+0E54", "U+0E55", "U+0E56", "U+0E57", "U+0E58",
      "U+0E59", "U+0ED0", "U+0ED1", "U+0ED2", "U+0ED3", "U+0ED4", "U+0ED5",
      "U+0ED6", "U+0ED7", "U+0ED8", "U+0ED9", "U+0F20", "U+0F21", "U+0F22",
      "U+0F23", "U+0F24", "U+0F25", "U+0F26", "U+0F27", "U+0F28", "U+0F29",
      "U+1040", "U+1041", "U+1042", "U+1043", "U+1044", "U+1045", "U+1046",
      "U+1047", "U+1048", "U+1049", "U+1090", "U+1091", "U+1092", "U+1093",
      "U+1094", "U+1095", "U+1096", "U+1097", "U+1098", "U+1099", "U+17E0",
      "U+17E1", "U+17E2", "U+17E3", "U+17E4", "U+17E5", "U+17E6", "U+17E7",
      "U+17E8", "U+17E9", "U+1810", "U+1811", "U+1812", "U+1813", "U+1814",
      "U+1815", "U+1816", "U+1817", "U+1818", "U+1819", "U+1946", "U+1947",
      "U+1948", "U+1949", "U+194A", "U+194B", "U+194C", "U+194D", "U+194E",
      "U+194F", "U+19D0", "U+19D1", "U+19D2", "U+19D3", "U+19D4", "U+19D5",
      "U+19D6", "U+19D7", "U+19D8", "U+19D9", "U+1A80", "U+1A81", "U+1A82",
      "U+1A83", "U+1A84", "U+1A85", "U+1A86", "U+1A87", "U+1A88", "U+1A89",
      "U+1A90", "U+1A91", "U+1A92", "U+1A93", "U+1A94", "U+1A95", "U+1A96",
      "U+1A97", "U+1A98", "U+1A99", "U+1B50", "U+1B51", "U+1B52", "U+1B53",
      "U+1B54", "U+1B55", "U+1B56", "U+1B57", "U+1B58", "U+1B59", "U+1BB0",
      "U+1BB1", "U+1BB2", "U+1BB3", "U+1BB4", "U+1BB5", "U+1BB6", "U+1BB7",
      "U+1BB8", "U+1BB9", "U+1C40", "U+1C41", "U+1C42", "U+1C43", "U+1C44",
      "U+1C45", "U+1C46", "U+1C47", "U+1C48", "U+1C49", "U+1C50", "U+1C51",
      "U+1C52", "U+1C53", "U+1C54", "U+1C55", "U+1C56", "U+1C57", "U+1C58",
      "U+1C59", "U+A620", "U+A621", "U+A622", "U+A623", "U+A624", "U+A625",
      "U+A626", "U+A627", "U+A628", "U+A629", "U+A8D0", "U+A8D1", "U+A8D2",
      "U+A8D3", "U+A8D4", "U+A8D5", "U+A8D6", "U+A8D7", "U+A8D8", "U+A8D9",
      "U+A900", "U+A901", "U+A902", "U+A903", "U+A904", "U+A905", "U+A906",
      "U+A907", "U+A908", "U+A909", "U+A9D0", "U+A9D1", "U+A9D2", "U+A9D3",
      "U+A9D4", "U+A9D5", "U+A9D6", "U+A9D7", "U+A9D8", "U+A9D9", "U+A9F0",
      "U+A9F1", "U+A9F2", "U+A9F3", "U+A9F4", "U+A9F5", "U+A9F6", "U+A9F7",
      "U+A9F8", "U+A9F9", "U+AA50", "U+AA51", "U+AA52", "U+AA53", "U+AA54",
      "U+AA55", "U+AA56", "U+AA57", "U+AA58", "U+AA59", "U+ABF0", "U+ABF1",
      "U+ABF2", "U+ABF3", "U+ABF4", "U+ABF5", "U+ABF6", "U+ABF7", "U+ABF8",
      "U+ABF9", "U+FF10", "U+FF11", "U+FF12", "U+FF13", "U+FF14", "U+FF15",
      "U+FF16", "U+FF17", "U+FF18", "U+FF19", "U+104A0", "U+104A1", "U+104A2",
      "U+104A3", "U+104A4", "U+104A5", "U+104A6", "U+104A7", "U+104A8",
      "U+104A9", "U+10D30", "U+10D31", "U+10D32", "U+10D33", "U+10D34",
      "U+10D35", "U+10D36", "U+10D37", "U+10D38", "U+10D39", "U+11066",
      "U+11067", "U+11068", "U+11069", "U+1106A", "U+1106B", "U+1106C",
      "U+1106D", "U+1106E", "U+1106F", "U+110F0", "U+110F1", "U+110F2",
      "U+110F3", "U+110F4", "U+110F5", "U+110F6", "U+110F7", "U+110F8",
      "U+110F9", "U+11136", "U+11137", "U+11138", "U+11139", "U+1113A",
      "U+1113B", "U+1113C", "U+1113D", "U+1113E", "U+1113F", "U+111D0",
      "U+111D1", "U+111D2", "U+111D3", "U+111D4", "U+111D5", "U+111D6",
      "U+111D7", "U+111D8", "U+111D9", "U+112F0", "U+112F1", "U+112F2",
      "U+112F3", "U+112F4", "U+112F5", "U+112F6", "U+112F7", "U+112F8",
      "U+112F9", "U+11450", "U+11451", "U+11452", "U+11453", "U+11454",
      "U+11455", "U+11456", "U+11457", "U+11458", "U+11459", "U+114D0",
      "U+114D1", "U+114D2", "U+114D3", "U+114D4", "U+114D5", "U+114D6",
      "U+114D7", "U+114D8", "U+114D9", "U+11650", "U+11651", "U+11652",
      "U+11653", "U+11654", "U+11655", "U+11656", "U+11657", "U+11658",
      "U+11659", "U+116C0", "U+116C1", "U+116C2", "U+116C3", "U+116C4",
      "U+116C5", "U+116C6", "U+116C7", "U+116C8", "U+116C9", "U+11730",
      "U+11731", "U+11732", "U+11733", "U+11734", "U+11735", "U+11736",
      "U+11737", "U+11738", "U+11739", "U+118E0", "U+118E1", "U+118E2",
      "U+118E3", "U+118E4", "U+118E5", "U+118E6", "U+118E7", "U+118E8",
      "U+118E9", "U+11950", "U+11951", "U+11952", "U+11953", "U+11954",
      "U+11955", "U+11956", "U+11957", "U+11958", "U+11959", "U+11C50",
      "U+11C51", "U+11C52", "U+11C53", "U+11C54", "U+11C55", "U+11C56",
      "U+11C57", "U+11C58", "U+11C59", "U+11D50", "U+11D51", "U+11D52",
      "U+11D53", "U+11D54", "U+11D55", "U+11D56", "U+11D57", "U+11D58",
      "U+11D59", "U+11DA0", "U+11DA1", "U+11DA2", "U+11DA3", "U+11DA4",
      "U+11DA5", "U+11DA6", "U+11DA7", "U+11DA8", "U+11DA9", "U+16A60",
      "U+16A61", "U+16A62", "U+16A63", "U+16A64", "U+16A65", "U+16A66",
      "U+16A67", "U+16A68", "U+16A69", "U+16AC0", "U+16AC1", "U+16AC2",
      "U+16AC3", "U+16AC4", "U+16AC5", "U+16AC6", "U+16AC7", "U+16AC8",
      "U+16AC9", "U+16B50", "U+16B51", "U+16B52", "U+16B53", "U+16B54",
      "U+16B55", "U+16B56", "U+16B57", "U+16B58", "U+16B59", "U+1D7CE",
      "U+1D7CF", "U+1D7D0", "U+1D7D1", "U+1D7D2", "U+1D7D3", "U+1D7D4",
      "U+1D7D5", "U+1D7D6", "U+1D7D7", "U+1D7D8", "U+1D7D9", "U+1D7DA",
      "U+1D7DB", "U+1D7DC", "U+1D7DD", "U+1D7DE", "U+1D7DF", "U+1D7E0",
      "U+1D7E1", "U+1D7E2", "U+1D7E3", "U+1D7E4", "U+1D7E5", "U+1D7E6",
      "U+1D7E7", "U+1D7E8", "U+1D7E9", "U+1D7EA", "U+1D7EB", "U+1D7EC",
      "U+1D7ED", "U+1D7EE", "U+1D7EF", "U+1D7F0", "U+1D7F1", "U+1D7F2",
      "U+1D7F3", "U+1D7F4", "U+1D7F5", "U+1D7F6", "U+1D7F7", "U+1D7F8",
      "U+1D7F9", "U+1D7FA", "U+1D7FB", "U+1D7FC", "U+1D7FD", "U+1D7FE",
      "U+1D7FF", "U+1E140", "U+1E141", "U+1E142", "U+1E143", "U+1E144",
      "U+1E145", "U+1E146", "U+1E147", "U+1E148", "U+1E149", "U+1E2F0",
      "U+1E2F1", "U+1E2F2", "U+1E2F3", "U+1E2F4", "U+1E2F5", "U+1E2F6",
      "U+1E2F7", "U+1E2F8", "U+1E2F9", "U+1E950", "U+1E951", "U+1E952",
      "U+1E953", "U+1E954", "U+1E955", "U+1E956", "U+1E957", "U+1E958",
      "U+1E959", "U+1FBF0", "U+1FBF1", "U+1FBF2", "U+1FBF3", "U+1FBF4",
      "U+1FBF5", "U+1FBF6", "U+1FBF7", "U+1FBF8", "U+1FBF9", "U+00E9">>
(* The code of one character; a character that is not listed has the last  *)
(* code.                                                                   *)
CharCode(c) ==
    IF c \in Digits THEN <<c>>
    ELSE LET i == IF \E k \in 1..Len(CodedChars) : CodedChars[k] = c
                  THEN CHOOSE k \in 1..Len(CodedChars) : CodedChars[k] = c
                  ELSE 1279
         IN  <<HexDigits[11 + (i \div 256)], HexDigits[((i % 256) \div 16) + 1],
               HexDigits[(i % 16) + 1]>>

RECURSIVE Encode(_)
Encode(s) ==
    IF \A i \in 1..Len(s) : s[i] \in Digits THEN s
    ELSE IF Len(s) = 1 THEN CharCode(s[1])
    ELSE LET half == Len(s) \div 2
         IN  Encode(SubSeq(s, 1, half)) \o Encode(SubSeq(s, half + 1, Len(s)))

hmac_hexdigest(key, msg) ==
    LET code == Encode(key) \o <<"f", "0">> \o Encode(msg) \o <<"f", "f">>
    IN  IF Len(code) >= DigestLen THEN code
        ELSE code \o chars([i \in 1..(DigestLen - Len(code)) |-> "0"])

(* hmac.compare_digest(a, b) on str arguments: TypeError when either holds *)
(* a non-ASCII character, else equality.                                   *)
compare_digest(a, b) ==
    IF \E i \in 1..Len(a) : a[i] \notin Ascii THEN "TypeError"
    ELSE IF \E i \in 1..Len(b) : b[i] \notin Ascii THEN "TypeError"
    ELSE IF a = b THEN "True" ELSE "False"

----------------------------------------------------------------------------
(* _make_form_token, read at clock value t.                                *)
_make_form_token(t) ==
    LET ts == t
        sig == hmac_hexdigest(FORM_TOKEN_SECRET, Str(ts))
    IN  Str(ts) \o <<".">> \o sig

(* _verify_form_token with the age test written `>=`: a token expires one  *)
(* second early.                                                           *)
_verify_form_token_ttl_exclusive(token, t) ==
    LET parts == split_dot(token)
    IN  IF Len(parts) # 2 THEN "False"
        ELSE LET ts_raw == parts[1]
                 sig == parts[2]
                 ts == int(ts_raw)
             IN  IF ~ts.ok THEN "False"
                 ELSE IF ts.val > t \/ t - ts.val >= FORM_TOKEN_TTL_SECONDS THEN "False"
                 ELSE compare_digest(hmac_hexdigest(FORM_TOKEN_SECRET, ts_raw), sig)

(* _verify_form_token without the test `ts > now`.                         *)
_verify_form_token_no_future_test(token, t) ==
    LET parts == split_dot(token)
    IN  IF Len(parts) # 2 THEN "False"
        ELSE LET ts_raw == parts[1]
                 sig == parts[2]
                 ts == int(ts_raw)
             IN  IF ~ts.ok THEN "False"
                 ELSE IF t - ts.val > FORM_TOKEN_TTL_SECONDS THEN "False"
                 ELSE compare_digest(hmac_hexdigest(FORM_TOKEN_SECRET, ts_raw), sig)

(* _verify_form_token for single-use tokens: a token that was accepted    *)
(* before is refused.                                                      *)
_verify_form_token_single_use(token, t) ==
    LET parts == split_dot(token)
    IN  IF token \in accepted THEN "False"
        ELSE IF Len(parts) # 2 THEN "False"
        ELSE LET ts_raw == parts[1]
                 sig == parts[2]
                 ts == int(ts_raw)
             IN  IF ~ts.ok THEN "False"
                 ELSE IF ts.val > t \/ t - ts.val > FORM_TOKEN_TTL_SECONDS THEN "False"
                 ELSE compare_digest(hmac_hexdigest(FORM_TOKEN_SECRET, ts_raw), sig)

(* _verify_form_token at clock value t: "True", "False", or the exception  *)
(* that leaves the function.                                               *)
_verify_form_token(token, t) ==
    LET parts == split_dot(token)
    IN  IF Len(parts) # 2 THEN "False"
        ELSE LET ts_raw == parts[1]
                 sig == parts[2]
                 ts == int(ts_raw)
             IN  IF ~ts.ok THEN "False"
                 ELSE IF ts.val > t \/ t - ts.val > FORM_TOKEN_TTL_SECONDS THEN "False"
                 ELSE compare_digest(hmac_hexdigest(FORM_TOKEN_SECRET, ts_raw), sig)

----------------------------------------------------------------------------
(* The clock.  It is observed at the instants e * TTL + d.                 *)

Instants == {e * FORM_TOKEN_TTL_SECONDS + d : e \in 0..MaxEpoch, d \in 0..MaxDrift}

Tick ==
    /\ \E t \in Instants : t > now /\ now' = t
    /\ UNCHANGED <<env, tokenVars, leadVars, other>>

----------------------------------------------------------------------------
(* Token strings handed to _verify_form_token.                             *)

ts_part(token) == split_dot(token)[1]
sig_part(token) == split_dot(token)[2]

ReplaceAt(s, i, c) == chars([j \in 1..Len(s) |-> IF j = i THEN c ELSE s[j]])

(* Signatures obtained from sig by altering it.                            *)
AlteredSigs(sig) ==
    {ReplaceAt(sig, 1, IF sig[1] = "f" THEN "e" ELSE "f"),
     ReplaceAt(sig, Len(sig), "1"),
     ReplaceAt(sig, Len(sig), "U+00E9"),
     ReplaceAt(sig, Len(sig), "}"),
     SubSeq(sig, 1, Len(sig) - 1),
     Append(sig, "0"),
     <<>>,
     hmac_hexdigest(<<"k", "2">>, <<"0">>)}

(* Timestamp texts obtained from the text of a timestamp by altering it;   *)
(* the first four still parse to the same integer under int().             *)
AlteredTimestamps(ts_raw) ==
    {<<"0">> \o ts_raw,
     <<"+">> \o ts_raw,
     <<" ">> \o ts_raw,
     ts_raw \o <<"\n">>,
     ts_raw \o <<"_", "0">>,
     Str(int(ts_raw).val + 1),
     <<>>,
     <<"x">>}

(* ts_raw behind as many zeros as make one digit more than int() reads.    *)
ZeroPadded(ts_raw) ==
    chars([i \in 1..(int_max_str_digits + 1 - Len(ts_raw)) |-> "0"]) \o ts_raw

Join(ts_raw, sig) == ts_raw \o <<".">> \o sig

(* Tokens obtained by tampering with an issued token.                      *)
Tampered(token) ==
    {Join(ts_part(token), s) : s \in AlteredSigs(sig_part(token))}
        \cup {Join(t, sig_part(token)) : t \in AlteredTimestamps(ts_part(token))}
        \cup {Join(t, hmac_hexdigest(FORM_TOKEN_SECRET, t)) :
                  t \in {<<"0">> \o ts_part(token), <<"+">> \o ts_part(token)}}

(* A token for the instant t written with more digits than int() reads,    *)
(* signed as written.                                                      *)
OverLong(t) ==
    {Join(ZeroPadded(Str(t)), hmac_hexdigest(FORM_TOKEN_SECRET, ZeroPadded(Str(t))))}

(* Tokens that no page carried: correctly signed for an instant the clock  *)
(* has not reached, or for one older than the TTL, and malformed strings.  *)
Forged(t) ==
    {_make_form_token(t + 1),
     _make_form_token(t + FORM_TOKEN_TTL_SECONDS),
     _make_form_token(t - FORM_TOKEN_TTL_SECONDS - 1),
     <<>>, <<".">>, <<"1", "2">>, <<"a", "b", "c">>,
     <<".", "a">>, <<"1", ".">>, <<"1", ".", "U+00E9">>,
     Str(t) \o <<".", "U+0451">>}

NoCall == [token |-> <<>>, at |-> -1, result |-> "none"]

(* GET /: read_index renders a page carrying a fresh token.                *)
read_index ==
    /\ Cardinality(issued) < MaxIssued
    /\ issued' = issued \cup {[token |-> _make_form_token(now), t |-> now]}
    /\ UNCHANGED <<now, env, vcall, accepted, leadVars, other>>

(* A call _verify_form_token(token), and its return to the caller.  The    *)
(* function reads its argument, the clock and the secret only, so the      *)
(* over-long token is tried at each instant while no page is out.          *)
verify_call ==
    /\ vcall = NoCall
    /\ \E token \in {i.token : i \in issued}
                      \cup UNION {Tampered(i.token) : i \in issued}
                      \cup Forged(now)
                      \cup (IF issued = {} THEN OverLong(now) ELSE {}) :
          vcall' = [token |-> token, at |-> now,
                    result |-> _verify_form_token(token, now)]
    /\ UNCHANGED <<now, env, issued, accepted, leadVars, other>>

verify_return ==
    /\ vcall # NoCall
    /\ vcall' = NoCall
    /\ accepted' = IF vcall.result = "True" /\ vcall.token \in {i.token : i \in issued}
                   THEN accepted \cup {vcall.token}
                   ELSE accepted
    /\ UNCHANGED <<now, env, issued, leadVars, other>>

----------------------------------------------------------------------------
(* Decoded values.  A value of the request body is a Python object: a str, *)
(* an int, a bool (n = 1 for True), a float (n holds its tenths: 1.0 is    *)
(* 10), None, or a list (n holds its length).                              *)

VStr(s) == [type |-> "str", s |-> s, n |-> 0]
VInt(n) == [type |-> "int", s |-> <<>>, n |-> n]
VBool(b) == [type |-> "bool", s |-> <<>>, n |-> IF b THEN 1 ELSE 0]
VFloat(tenths) == [type |-> "float", s |-> <<>>, n |-> tenths]
VList(len) == [type |-> "list", s |-> <<>>, n |-> len]
VNone == [type |-> "None", s |-> <<>>, n |-> 0]

(* bool(v).                                                                *)
truthy(v) ==
    CASE v.type = "str" -> v.s # <<>>
      [] v.type = "None" -> FALSE
      [] OTHER -> v.n # 0

(* a == b of Python: numbers (bool, int, float) compare by value, text by  *)
(* content, anything else is unequal.                                      *)
IsNumber(v) == v.type \in {"int", "bool", "float"}
Tenths(v) == IF v.type = "float" THEN v.n ELSE 10 * v.n
py_eq(a, b) ==
    \/ IsNumber(a) /\ IsNumber(b) /\ Tenths(a) = Tenths(b)
    \/ a.type = "str" /\ b.type = "str" /\ a.s = b.s
    \/ a.type = "None" /\ b.type = "None"

(* s.lower(), on the Latin letters.                                        *)
LatinUpperSeq == <<"A", "B", "C", "D", "E", "F", "G", "H", "I", "J", "K", "L", "M",
                   "N", "O", "P", "Q", "R", "S", "T", "U", "V", "W", "X", "Y", "Z">>
LatinLowerSeq == <<"a", "b", "c", "d", "e", "f", "g", "h", "i", "j", "k", "l", "m",
                   "n", "o", "p", "q", "r", "s", "t", "u", "v", "w", "x", "y", "z">>
lower(s) ==
    chars([i \in 1..Len(s) |->
              IF s[i] \in UpperLatin
              THEN LatinLowerSeq[CHOOSE k \in 1..26 : LatinUpperSeq[k] = s[i]]
              ELSE s[i]])

(* sub in s.                                                               *)
contains(s, sub) ==
    \E i \in 0..(Len(s) - Len(sub)) : SubSeq(s, i + 1, i + Len(sub)) = sub

APPLICATION_JSON ==
    <<"a", "p", "p", "l", "i", "c", "a", "t", "i", "o", "n", "/", "j", "s", "o", "n">>

----------------------------------------------------------------------------
(* The compiled patterns, src/main.py:35-37, as pattern.match(s).          *)

NameChars == UpperLatin \cup LowerLatin \cup Cyrillic \cup {"-"} \cup Whitespace
PhoneChars == Digits \cup {"+", "-", "(", ")"} \cup Whitespace

(* s is lo to hi characters of the class.                                  *)
repeat(s, class, lo, hi) ==
    /\ lo <= Len(s) /\ Len(s) <= hi
    /\ \A i \in 1..Len(s) : s[i] \in class

(* `$` of a pattern: the end of the text, or the place before a newline    *)
(* that ends the text.  The texts at which the pattern may end.            *)
before_dollar(s) ==
    {s} \cup (IF s # <<>> /\ s[Len(s)] = "\n" THEN {SubSeq(s, 1, Len(s) - 1)} ELSE {})

(* NAME_RE with \w in the class: digits are let through.                   *)
NAME_RE_word_chars(s) ==
    \E m \in before_dollar(s) : repeat(m, NameChars \cup Digits, 1, 60)

NAME_RE(s) == \E m \in before_dollar(s) : repeat(m, NameChars, 1, 60)

PHONE_RE(s) == \E m \in before_dollar(s) : repeat(m, PhoneChars, 6, 32)

(* One "@", no whitespace, text before the "@", and after it a "." with    *)
(* text on both sides.                                                     *)
EMAIL_RE(s) ==
    \E m \in before_dollar(s) :
        /\ \A i \in 1..Len(m) : m[i] \notin Whitespace
        /\ Cardinality({i \in 1..Len(m) : m[i] = "@"}) = 1
        /\ LET at == CHOOSE i \in 1..Len(m) : m[i] = "@"
           IN  /\ at > 1
               /\ \E d \in (at + 2)..(Len(m) - 1) : m[d] = "."

(* html.escape(s): & < > " ' replaced by their entities.                   *)
escape_char(c) ==
    CASE c = "&" -> <<"&", "a", "m", "p", ";">>
      [] c = "<" -> <<"&", "l", "t", ";">>
      [] c = ">" -> <<"&", "g", "t", ";">>
      [] c = "\"" -> <<"&", "q", "u", "o", "t", ";">>
      [] c = "'" -> <<"&", "#", "x", "2", "7", ";">>
      [] OTHER -> <<c>>

RECURSIVE html_escape(_)
html_escape(s) ==
    IF s = <<>> THEN <<>>
    ELSE IF Len(s) = 1 THEN escape_char(s[1])
    ELSE LET half == Len(s) \div 2
         IN  html_escape(SubSeq(s, 1, half)) \o html_escape(SubSeq(s, half + 1, Len(s)))

----------------------------------------------------------------------------
(* _send_telegram_message(text) when the gateway answers gw.  err is the   *)
(* detail text, posts the number of opener.open() calls made.              *)

MISSING_DETAIL == <<"Missing", " TELEGRAM_BOT_TOKEN or TELEGRAM_CHAT_ID">>
FAILED_TO_READ_BODY ==
    <<"<", "f", "a", "i", "l", "e", "d", " ", "t", "o", " ", "r", "e", "a", "d", " ",
      "b", "o", "d", "y", ">">>

(* str(exc) of the exception opener.open raised: urllib.error.URLError     *)
(* wraps its reason, any other exception gives its message.                *)
str_exc(gw) ==
    IF gw.kind = "URLError"
    THEN <<"<", "u", "r", "l", "o", "p", "e", "n", " ", "e", "r", "r", "o", "r", " ">>
             \o gw.body \o <<">">>
    ELSE gw.body

(* _send_telegram_message with the credentials test written `and`: it     *)
(* gives up only when both are missing.                                    *)
_send_telegram_message_both_missing(text, gw) ==
    IF /\ ~env["TELEGRAM_BOT_TOKEN"].set \/ env["TELEGRAM_BOT_TOKEN"].text = <<>>
       /\ ~env["TELEGRAM_CHAT_ID"].set \/ env["TELEGRAM_CHAT_ID"].text = <<>>
    THEN [ok |-> FALSE, err |-> MISSING_DETAIL, posts |-> 0]
    ELSE IF gw.kind = "response" /\ 200 <= gw.code /\ gw.code < 300
    THEN [ok |-> TRUE, err |-> <<>>, posts |-> 1]
    ELSE [ok |-> FALSE, err |-> <<"Telegram request failed: ">> \o str_exc(gw), posts |-> 1]

(* `not x` for x = os.getenv(name): unset (None) or the empty string.      *)
not_getenv(name) == ~env[name].set \/ env[name].text = <<>>

_send_telegram_message(text, gw) ==
    IF not_getenv("TELEGRAM_BOT_TOKEN") \/ not_getenv("TELEGRAM_CHAT_ID")
    THEN [ok |-> FALSE, err |-> MISSING_DETAIL, posts |-> 0]
    ELSE CASE gw.kind = "response" ->
                IF 200 <= gw.code /\ gw.code < 300
                THEN [ok |-> TRUE, err |-> <<>>, posts |-> 1]
                ELSE [ok |-> FALSE,
                      err |-> <<"Telegram API error: ">> \o Str(gw.code),
                      posts |-> 1]
           [] gw.kind = "HTTPError" ->
                LET body == IF gw.readable THEN gw.body ELSE FAILED_TO_READ_BODY
                IN  [ok |-> FALSE,
                     err |-> <<"Telegram HTTP error: ">> \o Str(gw.code)
                                 \o <<"; body: ">> \o body,
                     posts |-> 1]
           [] OTHER ->
                [ok |-> FALSE,
                 err |-> <<"Telegram request failed: ">> \o str_exc(gw),
                 posts |-> 1]

----------------------------------------------------------------------------
(* create_lead.                                                            *)

NoResponse == [kind |-> "none", status |-> 0, ok |-> FALSE, error |-> <<>>]

(* fail(status_code, code).                                                *)
fail(status_code, code) ==
    [kind |-> "json", status |-> status_code, ok |-> FALSE, error |-> <<code>>]

(* An exception that leaves create_lead: the framework answers 500 with a  *)
(* plain-text body.                                                        *)
raised(exc) == [kind |-> "exception", status |-> 500, ok |-> FALSE, error |-> <<exc>>]

(* check_content_length without the comparison with MAX_BODY_BYTES.       *)
check_content_length_unparsable_only(req) ==
    IF req.content_length.set /\ req.content_length.text # <<>>
       /\ ~int(req.content_length.text).ok
    THEN fail(400, "invalid_content_length")
    ELSE NoResponse

(* Lines 134-140: NoResponse when the handler goes on to read the body.    *)
check_content_length(req) ==
    LET content_length == req.content_length
    IN  IF content_length.set /\ content_length.text # <<>>
        THEN LET n == int(content_length.text)
             IN  IF ~n.ok THEN fail(400, "invalid_content_length")
                 ELSE IF n.val > MAX_BODY_BYTES THEN fail(413, "payload_too_large")
                 ELSE NoResponse
        ELSE NoResponse

(* check_body_length without the test.                                     *)
check_body_length_skipped(req) == NoResponse

(* Lines 143-144.                                                          *)
check_body_length(req) ==
    IF req.body.size > MAX_BODY_BYTES THEN fail(413, "payload_too_large") ELSE NoResponse

EmptyFields ==
    [first_name |-> VNone, email |-> VNone, phone |-> VNone, message |-> VNone,
     consent |-> VNone, form_token |-> VNone]
EmptyDict == [top |-> "dict", fields |-> EmptyFields]

CT_FORM ==
    <<"a", "p", "p", "l", "i", "c", "a", "t", "i", "o", "n", "/", "x", "-", "w", "w", "w",
      "-", "f", "o", "r", "m", "-", "u", "r", "l", "e", "n", "c", "o", "d", "e", "d">>
(* The media type of a content-type header: the text before the first ";". *)
media_type(s) ==
    IF \A i \in 1..Len(s) : s[i] # ";" THEN strip(s)
    ELSE LET d == CHOOSE i \in 1..Len(s) : s[i] = ";" /\ \A j \in 1..(i - 1) : s[j] # ";"
         IN  strip(SubSeq(s, 1, d - 1))

(* Lines 146-157: data.  request.json() gives the value the body encodes   *)
(* and raises on a body that is not JSON; request.form() gives the fields  *)
(* of a form body sent as application/x-www-form-urlencoded, and no field  *)
(* for any other body or media type.  An exception leaves data = {}.       *)
(* decode without the two `except Exception: data = {}` handlers: a body   *)
(* that fails to decode leaves no dict behind.                             *)
decode_unhandled(req) ==
    LET content_type == lower(IF req.content_type.set THEN req.content_type.text ELSE <<>>)
    IN  IF contains(content_type, APPLICATION_JSON)
        THEN IF req.body.syntax = "json" THEN req.body.value
             ELSE [top |-> "None", fields |-> EmptyFields]
        ELSE IF media_type(content_type) = CT_FORM /\ req.body.syntax = "form"
        THEN req.body.value
        ELSE IF req.body.syntax = "malformed"
        THEN [top |-> "None", fields |-> EmptyFields]
        ELSE EmptyDict

decode(req) ==
    LET content_type == lower(IF req.content_type.set THEN req.content_type.text ELSE <<>>)
    IN  IF contains(content_type, APPLICATION_JSON)
        THEN IF req.body.syntax = "json" THEN req.body.value ELSE EmptyDict
        ELSE IF media_type(content_type) = CT_FORM /\ req.body.syntax = "form"
        THEN req.body.value
        ELSE EmptyDict

(* (data.get(key) or '').strip(): text, or the AttributeError of a value   *)
(* that is true and has no strip().                                        *)
get_text(data, key) ==
    IF data.top # "dict" THEN [ok |-> FALSE, s |-> <<>>]
    ELSE LET v == data.fields[key]
         IN  IF ~truthy(v) THEN [ok |-> TRUE, s |-> <<>>]
             ELSE IF v.type = "str" THEN [ok |-> TRUE, s |-> strip(v.s)]
             ELSE [ok |-> FALSE, s |-> <<>>]

(* consent in (True, 'true', 'on', '1', 1).                                *)
consent_accepted(consent) ==
    \E lit \in {VBool(TRUE), VStr(<<"t", "r", "u", "e">>), VStr(<<"o", "n">>),
                VStr(<<"1">>), VInt(1)} : py_eq(consent, lit)

TITLE ==
    <<"<", "b", ">", "U+041D", "U+043E", "U+0432", "U+0430", "U+044F", " ",
      "U+0437", "U+0430", "U+044F", "U+0432", "U+043A", "U+0430", " ", "U+0441", " ",
      "U+0441", "U+0430", "U+0439", "U+0442", "U+0430", "<", "/", "b", ">">>
LABEL_NAME == <<"U+0418", "U+043C", "U+044F", ":", " ">>
LABEL_EMAIL == <<"E", "m", "a", "i", "l", ":", " ">>
LABEL_PHONE ==
    <<"U+0422", "U+0435", "U+043B", "U+0435", "U+0444", "U+043E", "U+043D", ":", " ">>
LABEL_MESSAGE ==
    <<"U+0421", "U+043E", "U+043E", "U+0431", "U+0449", "U+0435", "U+043D", "U+0438",
      "U+0435", ":", " ">>

(* message_text with the message inserted as typed.                        *)
message_text_raw_message(first_name, email, phone, message) ==
    TITLE \o <<"\n">> \o LABEL_NAME \o html_escape(first_name)
          \o <<"\n">> \o LABEL_EMAIL \o html_escape(email)
          \o <<"\n">> \o LABEL_PHONE \o html_escape(phone)
          \o <<"\n">> \o LABEL_MESSAGE \o message

(* Lines 184-197: '\n'.join(lines).                                        *)
message_text(first_name, email, phone, message) ==
    TITLE \o <<"\n">> \o LABEL_NAME \o html_escape(first_name)
          \o <<"\n">> \o LABEL_EMAIL \o html_escape(email)
          \o <<"\n">> \o LABEL_PHONE \o html_escape(phone)
          \o <<"\n">> \o LABEL_MESSAGE \o html_escape(message)

(* check_fields without the limit on the message.                          *)
check_fields_no_message_limit(first_name, email, phone, message) ==
    IF Len(first_name) > MAX_FIRST_NAME_LEN \/ ~NAME_RE(first_name)
    THEN fail(400, "invalid_first_name")
    ELSE IF Len(email) > MAX_EMAIL_LEN \/ ~EMAIL_RE(email)
    THEN fail(400, "invalid_email")
    ELSE IF Len(phone) > MAX_PHONE_LEN \/ ~PHONE_RE(phone)
    THEN fail(400, "invalid_phone")
    ELSE NoResponse

(* Lines 175-182: the per-field checks, NoResponse when all four pass.     *)
check_fields(first_name, email, phone, message) ==
    IF Len(first_name) > MAX_FIRST_NAME_LEN \/ ~NAME_RE(first_name)
    THEN fail(400, "invalid_first_name")
    ELSE IF Len(email) > MAX_EMAIL_LEN \/ ~EMAIL_RE(email)
    THEN fail(400, "invalid_email")
    ELSE IF Len(phone) > MAX_PHONE_LEN \/ ~PHONE_RE(phone)
    THEN fail(400, "invalid_phone")
    ELSE IF Len(message) > MAX_MESSAGE_LEN
    THEN fail(400, "message_too_long")
    ELSE NoResponse

Outcome(resp, clock, calls, posts, text) ==
    [response |-> resp, verify_clock |-> clock, send_calls |-> calls,
     gateway_posts |-> posts, outbound |-> text]

(* dispatch that tries the gateway a second time when the first send      *)
(* fails, and reports the second failure.                                  *)
dispatch_retry_once(first_name, email, phone, message, t, gw) ==
    LET text == message_text(first_name, email, phone, message)
        sent == _send_telegram_message(text, gw)
        again == _send_telegram_message(text, gw)
    IN  IF sent.ok
        THEN Outcome([kind |-> "json", status |-> 200, ok |-> TRUE, error |-> <<>>],
                     t, 1, sent.posts, text)
        ELSE Outcome([kind |-> "json", status |-> 502, ok |-> FALSE, error |-> again.err],
                     t, 2, sent.posts + again.posts, text)

(* Lines 197-202.                                                          *)
dispatch(first_name, email, phone, message, t, gw) ==
    LET text == message_text(first_name, email, phone, message)
        sent == _send_telegram_message(text, gw)
    IN  IF ~sent.ok
        THEN Outcome([kind |-> "json", status |-> 502, ok |-> FALSE, error |-> sent.err],
                     t, 1, sent.posts, text)
        ELSE Outcome([kind |-> "json", status |-> 200, ok |-> TRUE, error |-> <<>>],
                     t, 1, sent.posts, text)

(* validate_and_send with the token checked before the consent.            *)
validate_and_send_token_first(first_name, email, phone, message, consent, form_token, t, gw) ==
    IF first_name = <<>> \/ email = <<>> \/ phone = <<>> \/ message = <<>>
    THEN Outcome(fail(400, "required_fields"), -1, 0, 0, <<>>)
    ELSE IF form_token = <<>>
    THEN Outcome(fail(403, "invalid_form_token"), -1, 0, 0, <<>>)
    ELSE LET verified == _verify_form_token(form_token, t)
             checked == check_fields(first_name, email, phone, message)
         IN  IF verified = "TypeError" THEN Outcome(raised("TypeError"), t, 0, 0, <<>>)
             ELSE IF verified = "False"
             THEN Outcome(fail(403, "invalid_form_token"), t, 0, 0, <<>>)
             ELSE IF ~consent_accepted(consent)
             THEN Outcome(fail(400, "consent_required"), t, 0, 0, <<>>)
             ELSE IF checked # NoResponse THEN Outcome(checked, t, 0, 0, <<>>)
             ELSE dispatch(first_name, email, phone, message, t, gw)

(* Lines 166-202 on the stripped fields, at clock value t.                 *)
validate_and_send(first_name, email, phone, message, consent, form_token, t, gw) ==
    IF first_name = <<>> \/ email = <<>> \/ phone = <<>> \/ message = <<>>
    THEN Outcome(fail(400, "required_fields"), -1, 0, 0, <<>>)
    ELSE IF ~consent_accepted(consent)
    THEN Outcome(fail(400, "consent_required"), -1, 0, 0, <<>>)
    ELSE IF form_token = <<>>
    THEN Outcome(fail(403, "invalid_form_token"), -1, 0, 0, <<>>)
    ELSE LET verified == _verify_form_token(form_token, t)
             checked == check_fields(first_name, email, phone, message)
         IN  IF verified = "TypeError" THEN Outcome(raised("TypeError"), t, 0, 0, <<>>)
             ELSE IF verified = "False"
             THEN Outcome(fail(403, "invalid_form_token"), t, 0, 0, <<>>)
             ELSE IF checked # NoResponse THEN Outcome(checked, t, 0, 0, <<>>)
             ELSE dispatch(first_name, email, phone, message, t, gw)

(* handle_data reading the fields from one module-level buffer that every *)
(* handler fills at decoding: a handler suspended at its decoder has       *)
(* overwritten it.                                                         *)
handle_data_shared_buffer(data, t, gw) ==
    LET shared == IF other.pc = "await_decode" THEN decode(other.request) ELSE data
        first_name == get_text(shared, "first_name")
        email == get_text(shared, "email")
        phone == get_text(shared, "phone")
        message == get_text(shared, "message")
        form_token == get_text(shared, "form_token")
    IN  IF ~(first_name.ok /\ email.ok /\ phone.ok /\ message.ok /\ form_token.ok)
        THEN Outcome(raised("AttributeError"), -1, 0, 0, <<>>)
        ELSE validate_and_send(first_name.s, email.s, phone.s, message.s,
                               shared.fields.consent, form_token.s, t, gw)

(* Lines 159-202 on the decoded data.                                      *)
handle_data(data, t, gw) ==
    LET first_name == get_text(data, "first_name")
        email == get_text(data, "email")
        phone == get_text(data, "phone")
        message == get_text(data, "message")
        form_token == get_text(data, "form_token")
    IN  IF ~(first_name.ok /\ email.ok /\ phone.ok /\ message.ok /\ form_token.ok)
        THEN Outcome(raised("AttributeError"), -1, 0, 0, <<>>)
        ELSE validate_and_send(first_name.s, email.s, phone.s, message.s,
                               data.fields.consent, form_token.s, t, gw)

----------------------------------------------------------------------------
(* Requests sent to POST /api/lead.                                        *)

Header(text) == [set |-> TRUE, text |-> text]
NoHeader == [set |-> FALSE, text |-> <<>>]

CT_JSON_CHARSET ==
    <<"A", "p", "p", "l", "i", "c", "a", "t", "i", "o", "n", "/", "J", "S", "O", "N", ";",
      " ", "c", "h", "a", "r", "s", "e", "t", "=", "u", "t", "f", "-", "8">>

(* The instant the lead requests start at, and the tokens they carry: one  *)
(* rendered then, and one rendered a TTL before.                           *)
LeadStart == MaxEpoch * FORM_TOKEN_TTL_SECONDS
FreshToken == _make_form_token(LeadStart)
OldToken == _make_form_token(LeadStart - FORM_TOKEN_TTL_SECONDS)

LongMessage == chars([i \in 1..(MAX_MESSAGE_LEN + 1) |-> "x"])

ValidName == VStr(<<" ", "A", "n", "-", "U+044F">>)
ValidEmail == VStr(<<"a", "@", "b", ".", "c", "o">>)
ValidPhone == VStr(<<"+", "1", " ", "(", "2", "3", ")", "4", "5">>)
ValidMessage == VStr(<<"<", "b", ">", "&", " ">>)
TamperedToken == Join(ts_part(FreshToken), ReplaceAt(sig_part(FreshToken), 1, "0"))
NonAsciiToken == Join(ts_part(FreshToken), ReplaceAt(sig_part(FreshToken), DigestLen, "U+00E9"))

FirstNames == {VNone, ValidName, VStr(<<"A", "1">>), VInt(5)}
Emails == {VNone, ValidEmail, VStr(<<"a", "@", "b">>)}
Phones == {VNone, ValidPhone, VStr(<<"1", "2", "3", "4", "5">>)}
Messages == {VNone, ValidMessage}
Consents == {VNone, VStr(<<"o", "n">>), VStr(<<"n", "o">>), VBool(TRUE)}
FormTokens ==
    {VNone, VStr(FreshToken), VStr(OldToken), VStr(TamperedToken), VStr(NonAsciiToken)}

(* Every combination of these field values, and the combinations of the    *)
(* failing and passing values of each check with a message over the limit. *)
FieldSets ==
    [first_name : FirstNames, email : Emails, phone : Phones, message : Messages,
     consent : Consents, form_token : FormTokens]
        \cup [first_name : {VNone, ValidName, VStr(<<"A", "1">>)},
              email : {ValidEmail, VStr(<<"a", "@", "b">>)},
              phone : {ValidPhone, VStr(<<"1", "2", "3", "4", "5">>)},
              message : {VStr(LongMessage)},
              consent : {VNone, VStr(<<"o", "n">>)},
              form_token : {VStr(FreshToken), VStr(TamperedToken)}]

ValidFields ==
    [first_name |-> ValidName, email |-> ValidEmail, phone |-> ValidPhone,
     message |-> ValidMessage, consent |-> VStr(<<"o", "n">>),
     form_token |-> VStr(FreshToken)]

TypicalSize == 8192

JsonBody(fields, size) ==
    [size |-> size, syntax |-> "json", value |-> [top |-> "dict", fields |-> fields]]
FormBody(fields, size) ==
    [size |-> size, syntax |-> "form", value |-> [top |-> "dict", fields |-> fields]]
(* JSON texts that decode to a list, a number and null.                    *)
NonObjectBodies ==
    {[size |-> TypicalSize, syntax |-> "json", value |-> [top |-> t, fields |-> EmptyFields]] :
        t \in {"list", "int", "None"}}
MalformedBody == [size |-> TypicalSize, syntax |-> "malformed", value |-> EmptyDict]

(* Every combination of field values, as a JSON object under the usual     *)
(* headers.                                                                *)
FieldRequests ==
    {[content_length |-> NoHeader, content_type |-> Header(APPLICATION_JSON),
      body |-> JsonBody(f, TypicalSize)] : f \in FieldSets}

(* Every combination of headers, over bodies of each shape and size.       *)
ContentLengths ==
    {NoHeader, Header(<<>>), Header(Str(TypicalSize)), Header(Str(MAX_BODY_BYTES)),
     Header(Str(MAX_BODY_BYTES + 1)), Header(<<"4", "0", "0", "0", "0">>),
     Header(<<" ", "4", "0", "_", "0", "0", "0">>), Header(<<"-", "1">>),
     Header(<<"a", "b", "c">>), Header(ZeroPadded(Str(TypicalSize))),
     Header(<<"4">> \o ZeroPadded(<<>>))}
ContentTypes == {NoHeader, Header(APPLICATION_JSON), Header(CT_JSON_CHARSET), Header(CT_FORM)}
ShapedBodies ==
    {JsonBody(ValidFields, TypicalSize), JsonBody(ValidFields, MAX_BODY_BYTES),
     JsonBody(ValidFields, MAX_BODY_BYTES + 1),
     FormBody(ValidFields, TypicalSize), FormBody(ValidFields, MAX_BODY_BYTES + 1),
     FormBody([ValidFields EXCEPT !.consent = VNone], TypicalSize),
     MalformedBody} \cup NonObjectBodies
HeaderRequests ==
    {[content_length |-> cl, content_type |-> ct, body |-> b] :
        cl \in ContentLengths, ct \in ContentTypes, b \in ShapedBodies}

(* Consent values of every JSON type, in an otherwise valid submission.    *)
ConsentValues ==
    {VNone, VBool(TRUE), VBool(FALSE), VInt(0), VInt(1), VInt(2),
     VFloat(10), VFloat(5), VFloat(0), VList(1),
     VStr(<<"t", "r", "u", "e">>), VStr(<<"T", "r", "u", "e">>), VStr(<<"o", "n">>),
     VStr(<<"1">>), VStr(<<"1", ".", "0">>), VStr(<<"y", "e", "s">>), VStr(<<>>)}
ConsentRequests ==
    {[content_length |-> NoHeader, content_type |-> Header(APPLICATION_JSON),
      body |-> JsonBody([ValidFields EXCEPT !.consent = c], TypicalSize)] :
        c \in ConsentValues}

(* First names at the length limit: 60 allowed characters, 61 of them, 60  *)
(* inside surrounding whitespace, and 60 with a digit among them.          *)
Name60 ==
    chars([i \in 1..MAX_FIRST_NAME_LEN |->
              IF i = 30 THEN " " ELSE IF i = 31 THEN "-" ELSE IF i = 32 THEN "\n"
              ELSE IF i % 3 = 0 THEN "U+0411" ELSE IF i % 3 = 1 THEN "U+0436" ELSE "A"])
Name61 == Append(Name60, "b")
PaddedName60 == <<" ", "\t">> \o Name60 \o <<" ", "\n">>
DigitName60 == ReplaceAt(Name60, 5, "7")
NameRequests ==
    {[content_length |-> NoHeader, content_type |-> Header(APPLICATION_JSON),
      body |-> JsonBody([ValidFields EXCEPT !.first_name = VStr(n)], TypicalSize)] :
        n \in {Name60, Name61, PaddedName60, DigitName60}}

(* A valid submission whose email and message carry markup characters.     *)
MarkupEmail == <<"<", "&", ">", "'", "@", "b", ".", "c">>
MarkupMessage == <<"<", "/", "b", ">", "&", "l", "t", ";", "\"", "'", "<", "a", ">">>
MarkupRequests ==
    {[content_length |-> NoHeader, content_type |-> Header(APPLICATION_JSON),
      body |-> JsonBody([ValidFields EXCEPT !.email = VStr(MarkupEmail),
                                            !.message = VStr(MarkupMessage)],
                        TypicalSize)]}

Requests ==
    FieldRequests \cup HeaderRequests \cup ConsentRequests \cup NameRequests
        \cup MarkupRequests

(* What the gateway does with a sendMessage call.                          *)
GatewayAnswers ==
    {[kind |-> "response", code |-> 200, readable |-> TRUE, body |-> <<>>],
     [kind |-> "HTTPError", code |-> 400, readable |-> TRUE, body |-> <<"{", "}">>],
     [kind |-> "HTTPError", code |-> 502, readable |-> FALSE,
      body |-> <<"B", "a", "d", " ", "G", "a", "t", "e", "w", "a", "y">>],
     [kind |-> "URLError", code |-> 0, readable |-> FALSE,
      body |-> <<"t", "i", "m", "e", "d", " ", "o", "u", "t">>],
     [kind |-> "TimeoutError", code |-> 0, readable |-> FALSE,
      body |-> <<"t", "i", "m", "e", "d", " ", "o", "u", "t">>]}

(* No sendMessage call reached the gateway.                                *)
NoAnswer == [kind |-> "none", code |-> 0, readable |-> FALSE, body |-> <<>>]

NoRequest ==
    [content_length |-> NoHeader, content_type |-> NoHeader,
     body |-> [size |-> 0, syntax |-> "malformed", value |-> EmptyDict]]

----------------------------------------------------------------------------
(* create_lead as a coroutine: it runs from one await to the next.         *)

respond(o) ==
    /\ pc' = "done"
    /\ response' = o.response
    /\ verify_clock' = o.verify_clock
    /\ send_calls' = o.send_calls
    /\ gateway_posts' = o.gateway_posts
    /\ outbound' = o.outbound

(* Lines 134-142, up to `await request.body()`.                            *)
begin(requests) ==
    /\ pc = "idle"
    /\ \E req \in requests :
          /\ request' = req
          /\ LET early == check_content_length(req)
             IN  IF early # NoResponse
                 THEN respond(Outcome(early, -1, 0, 0, <<>>))
                 ELSE /\ pc' = "await_body"
                      /\ UNCHANGED <<response, verify_clock, send_calls, gateway_posts,
                                     outbound>>
    /\ UNCHANGED <<now, env, tokenVars, body_read, decoded, gateway_answer, other>>

create_lead_begin == begin(Requests)

(* Lines 142-150/155: the body arrives, up to the await of the decoder.    *)
create_lead_body ==
    /\ pc = "await_body"
    /\ body_read' = TRUE
    /\ LET late == check_body_length(request)
       IN  IF late # NoResponse
           THEN respond(Outcome(late, -1, 0, 0, <<>>))
           ELSE /\ pc' = "await_decode"
                /\ UNCHANGED <<response, verify_clock, send_calls, gateway_posts, outbound>>
    /\ UNCHANGED <<now, env, tokenVars, request, decoded, gateway_answer, other>>

(* Lines 150-202: the decoder returns, and the handler runs to its end.    *)
create_lead_rest ==
    /\ pc = "await_decode"
    /\ decoded' = TRUE
    /\ \E gw \in GatewayAnswers :
          LET o == handle_data(decode(request), now, gw)
          IN  /\ respond(o)
              /\ gateway_answer' = IF o.gateway_posts > 0 THEN gw ELSE NoAnswer
    /\ UNCHANGED <<now, env, tokenVars, request, body_read, other>>

(* The response is sent and the handler's frame is dropped.                *)
create_lead_end ==
    /\ pc = "done"
    /\ pc' = "idle"
    /\ request' = NoRequest
    /\ body_read' = FALSE
    /\ decoded' = FALSE
    /\ verify_clock' = -1
    /\ send_calls' = 0
    /\ gateway_posts' = 0
    /\ gateway_answer' = NoAnswer
    /\ outbound' = <<>>
    /\ response' = NoResponse
    /\ UNCHANGED <<now, env, tokenVars, other>>

----------------------------------------------------------------------------
(* The process environment, read by os.getenv.                             *)

EnvSet(text) == [set |-> TRUE, text |-> text]
EnvUnset == [set |-> FALSE, text |-> <<>>]
Configured ==
    [TELEGRAM_BOT_TOKEN |-> EnvSet(<<"1", ":", "A">>), TELEGRAM_CHAT_ID |-> EnvSet(<<"4", "2">>)]
Environments ==
    {Configured,
     [Configured EXCEPT !.TELEGRAM_BOT_TOKEN = EnvSet(<<>>)],
     [Configured EXCEPT !.TELEGRAM_CHAT_ID = EnvUnset]}

(* The frame of a create_lead coroutine that handles no request.           *)
IdleFrame ==
    [pc |-> "idle", request |-> NoRequest, body_read |-> FALSE, decoded |-> FALSE,
     verify_clock |-> -1, send_calls |-> 0, gateway_posts |-> 0,
     gateway_answer |-> NoAnswer, outbound |-> <<>>, response |-> NoResponse]

InitLead ==
    /\ pc = "idle"
    /\ request = NoRequest
    /\ body_read = FALSE
    /\ decoded = FALSE
    /\ verify_clock = -1
    /\ send_calls = 0
    /\ gateway_posts = 0
    /\ gateway_answer = NoAnswer
    /\ outbound = <<>>
    /\ response = NoResponse
    /\ other = IdleFrame

(* The service handling lead submissions.                                  *)
Init ==
    /\ now = LeadStart
    /\ env \in Environments
    /\ issued = {}
    /\ vcall = NoCall
    /\ accepted = {}
    /\ InitLead

Next ==
    \/ Tick
    \/ create_lead_begin
    \/ create_lead_body
    \/ create_lead_rest
    \/ create_lead_end

Spec == Init /\ [][Next]_vars

(* Two requests in flight on the event loop: one coroutine runs, the other *)
(* is suspended at an await; pages are rendered in between.                *)
Frame ==
    [pc |-> pc, request |-> request, body_read |-> body_read, decoded |-> decoded,
     verify_clock |-> verify_clock, send_calls |-> send_calls,
     gateway_posts |-> gateway_posts, gateway_answer |-> gateway_answer,
     outbound |-> outbound, response |-> response]

(* The event loop suspends the running coroutine and resumes the other.    *)
switch ==
    /\ other # Frame
    /\ other' = Frame
    /\ pc' = other.pc
    /\ request' = other.request
    /\ body_read' = other.body_read
    /\ decoded' = other.decoded
    /\ verify_clock' = other.verify_clock
    /\ send_calls' = other.send_calls
    /\ gateway_posts' = other.gateway_posts
    /\ gateway_answer' = other.gateway_answer
    /\ outbound' = other.outbound
    /\ response' = other.response
    /\ UNCHANGED <<now, env, tokenVars>>

ConcurrentRequests ==
    {[content_length |-> NoHeader, content_type |-> Header(APPLICATION_JSON),
      body |-> JsonBody(f, TypicalSize)] :
        f \in {ValidFields,
               [ValidFields EXCEPT !.form_token = VStr(OldToken)],
               [ValidFields EXCEPT !.form_token = VStr(NonAsciiToken)],
               [ValidFields EXCEPT !.consent = VNone],
               [ValidFields EXCEPT !.email = VStr(MarkupEmail)]}}
        \cup {[content_length |-> Header(Str(MAX_BODY_BYTES + 1)),
                content_type |-> Header(APPLICATION_JSON),
                body |-> JsonBody(ValidFields, TypicalSize)],
               [content_length |-> NoHeader, content_type |-> Header(CT_FORM),
                body |-> FormBody(ValidFields, MAX_BODY_BYTES + 1)],
               [content_length |-> NoHeader, content_type |-> Header(APPLICATION_JSON),
                body |-> MalformedBody]}

create_lead_begin_concurrent == begin(ConcurrentRequests)

InitConcurrent ==
    /\ now = LeadStart
    /\ env \in Environments
    /\ issued = {}
    /\ vcall = NoCall
    /\ accepted = {}
    /\ InitLead

NextConcurrent ==
    \/ Tick
    \/ read_index
    \/ create_lead_begin_concurrent
    \/ create_lead_body
    \/ create_lead_rest
    \/ create_lead_end
    \/ switch

ConcurrentSpec == InitConcurrent /\ [][NextConcurrent]_vars

(* The token functions on their own: pages are rendered, time passes, and  *)
(* _verify_form_token is called on issued, tampered and forged tokens.     *)
InitToken ==
    /\ now = 0
    /\ env = Configured
    /\ issued = {}
    /\ vcall = NoCall
    /\ accepted = {}
    /\ InitLead

NextToken ==
    \/ Tick
    \/ read_index
    \/ verify_call
    \/ verify_return

TokenSpec == InitToken /\ [][NextToken]_vars

----------------------------------------------------------------------------
(* Properties of the token functions, checked under TokenSpec.             *)

Called == vcall.result # "none"

(* The call was made on a token of the form <text>.<signature> whose text  *)
(* parses to an integer.                                                   *)
CalledOnTimestamped ==
    /\ Called
    /\ Len(split_dot(vcall.token)) = 2
    /\ int(ts_part(vcall.token)).ok

CalledTimestamp == int(ts_part(vcall.token)).val

(* C2: _verify_form_token returns a boolean on every string and never      *)
(* raises; malformed input yields false.                                   *)
C2_VerifyNeverRaises == Called => vcall.result \in {"True", "False"}

(* C4: a token returned by _make_form_token at time t is accepted by       *)
(* _verify_form_token at every time from t to t + 1800 seconds.            *)
C4_RoundTrip ==
    \A i \in issued :
        (/\ Called
         /\ vcall.token = i.token
         /\ i.t <= vcall.at
         /\ vcall.at <= i.t + FORM_TOKEN_TTL_SECONDS) => vcall.result = "True"

C4_Witness ==
    \E i \in issued :
        /\ vcall.token = i.token
        /\ vcall.at = i.t + FORM_TOKEN_TTL_SECONDS
        /\ vcall.result = "True"

(* C5: _verify_form_token returns false for every token whose timestamp is *)
(* after the current time or more than 1800 seconds before it, also when   *)
(* its signature is the HMAC of that timestamp.                            *)
C5_FreshnessWindow ==
    (/\ CalledOnTimestamped
     /\ \/ CalledTimestamp > vcall.at
        \/ vcall.at - CalledTimestamp > FORM_TOKEN_TTL_SECONDS) => vcall.result = "False"

C5_Witness ==
    /\ CalledOnTimestamped
    /\ CalledTimestamp > vcall.at
    /\ sig_part(vcall.token) = hmac_hexdigest(FORM_TOKEN_SECRET, Str(CalledTimestamp))
    /\ vcall.result = "False"

(* C6: for every issued token, a token that keeps its timestamp part and   *)
(* alters its signature part, or keeps its signature part and alters its   *)
(* timestamp part, is rejected: _verify_form_token returns false.          *)
C6_TamperRejected ==
    \A i \in issued :
        (/\ Called
         /\ Len(split_dot(vcall.token)) = 2
         /\ vcall.token # i.token
         /\ \/ ts_part(vcall.token) = ts_part(i.token)
            \/ sig_part(vcall.token) = sig_part(i.token)) => vcall.result = "False"

----------------------------------------------------------------------------
(* Properties of create_lead, checked under Spec.  The checks of the       *)
(* pipeline, each stated on the request being handled:                     *)

Handling == pc # "idle"
Done == pc = "done"
Rejected == Done /\ response.kind = "json" /\ response.status \in 400..499

DeclaredLength == int(request.content_length.text)
Declares == request.content_length.set /\ request.content_length.text # <<>>
DeclaresUnparsable == Declares /\ ~DeclaredLength.ok
DeclaresTooLarge == Declares /\ DeclaredLength.ok /\ DeclaredLength.val > MAX_BODY_BYTES
BodyTooLarge == request.body.size > MAX_BODY_BYTES

Data == decode(request)
Crashes == \E k \in {"first_name", "email", "phone", "message", "form_token"} :
               ~get_text(Data, k).ok
Field(k) == get_text(Data, k).s

PresenceFails == \E k \in {"first_name", "email", "phone", "message"} : Field(k) = <<>>
ConsentFails == ~consent_accepted(Data.fields.consent)
TokenFails ==
    \/ Field("form_token") = <<>>
    \/ _verify_form_token(Field("form_token"), verify_clock) # "True"
NameFails ==
    \/ Len(Field("first_name")) > 60
    \/ \E i \in 1..Len(Field("first_name")) : Field("first_name")[i] \notin NameChars
EmailFails == Len(Field("email")) > 120 \/ ~EMAIL_RE(Field("email"))
PhoneFails ==
    \/ Len(Field("phone")) > 32
    \/ Len(Field("phone")) < 6
    \/ \E i \in 1..Len(Field("phone")) : Field("phone")[i] \notin PhoneChars
MessageFails == Len(Field("message")) > 4000

(* The code of the first failing check in the fixed order.                 *)
FirstFailing ==
    IF DeclaresUnparsable THEN "invalid_content_length"
    ELSE IF DeclaresTooLarge \/ BodyTooLarge THEN "payload_too_large"
    ELSE IF PresenceFails THEN "required_fields"
    ELSE IF ConsentFails THEN "consent_required"
    ELSE IF TokenFails THEN "invalid_form_token"
    ELSE IF NameFails THEN "invalid_first_name"
    ELSE IF EmailFails THEN "invalid_email"
    ELSE IF PhoneFails THEN "invalid_phone"
    ELSE IF MessageFails THEN "message_too_long"
    ELSE "none"

AllChecksPass ==
    /\ ~DeclaresUnparsable /\ ~DeclaresTooLarge /\ ~BodyTooLarge
    /\ Data.top = "dict" /\ ~Crashes
    /\ ~PresenceFails /\ ~ConsentFails
    /\ verify_clock >= 0 /\ ~TokenFails
    /\ ~NameFails /\ ~EmailFails /\ ~PhoneFails /\ ~MessageFails

(* C1: every POST /api/lead request ends in a structured JSON response; no *)
(* exception leaves create_lead.                                           *)
C1_AlwaysStructuredJson == Done => response.kind = "json"

(* C3: a rejected request carries exactly one reason code, the code of the *)
(* first failing check in the order size, presence, consent, token,        *)
(* first_name, email, phone, message.                                      *)
C3_FirstFailingCheckWins == Rejected => response.error = <<FirstFailing>>

(* Consent is missing, the token is invalid, and the answer names consent. *)
C3_Witness ==
    /\ Rejected
    /\ ~PresenceFails
    /\ ConsentFails
    /\ _verify_form_token(Field("form_token"), now) = "False"
    /\ response.error = <<"consent_required">>

(* C7: a request declaring a content-length above the cap is rejected with *)
(* 413 payload_too_large and its body is never read.                       *)
C7_DeclaredTooLargeNotRead ==
    (Handling /\ DeclaresTooLarge) =>
        /\ Done
        /\ ~body_read
        /\ response = fail(413, "payload_too_large")

C7_Witness ==
    /\ Done
    /\ DeclaresTooLarge
    /\ ~BodyTooLarge
    /\ ~body_read
    /\ response.status = 413

(* C8 as stated: a request whose body exceeds the cap never reaches        *)
(* decoding, validation or dispatch and is rejected with 413               *)
(* payload_too_large, whatever its content-length header.                  *)
C8_OversizedAlways413 ==
    (Handling /\ BodyTooLarge) =>
        /\ ~decoded /\ verify_clock = -1 /\ send_calls = 0
        /\ Done => response = fail(413, "payload_too_large")

(* C8 as amended: such a request never reaches decoding, validation or     *)
(* dispatch; it is rejected with 413 payload_too_large, unless its         *)
(* content-length header is non-empty and not an integer, and then with    *)
(* 400 invalid_content_length.                                             *)
C8_OversizedNeverDecoded ==
    (Handling /\ BodyTooLarge) =>
        /\ ~decoded /\ verify_clock = -1 /\ send_calls = 0
        /\ Done => response = IF DeclaresUnparsable
                              THEN fail(400, "invalid_content_length")
                              ELSE fail(413, "payload_too_large")

(* The header understates the body, the body is read and found too large.  *)
C8_Witness ==
    /\ Done
    /\ BodyTooLarge
    /\ Declares /\ DeclaredLength.ok /\ DeclaredLength.val < request.body.size
    /\ body_read
    /\ response.status = 413

(* C9: _send_telegram_message is called only after the size, presence,     *)
(* consent, token and per-field checks have all passed; a request rejected *)
(* with a 4xx reason code makes no outbound call.                          *)
C9_SendOnlyAfterAllChecks ==
    /\ send_calls > 0 => AllChecksPass
    /\ gateway_posts <= send_calls
    /\ Rejected => send_calls = 0

C9_Witness == Done /\ send_calls = 1 /\ gateway_posts = 1 /\ response.status = 200

(* C10: with the bot token or the chat id not configured, a fully valid    *)
(* submission is answered 502 with ok false and a detail starting with     *)
(* "Missing", and no request to the gateway is attempted.                  *)
CredentialsMissing ==
    \E name \in {"TELEGRAM_BOT_TOKEN", "TELEGRAM_CHAT_ID"} :
        ~env[name].set \/ env[name].text = <<>>

C10_MissingCredentials ==
    (Done /\ CredentialsMissing /\ AllChecksPass) =>
        /\ response.kind = "json"
        /\ response.status = 502
        /\ response.ok = FALSE
        /\ Head(response.error) = "Missing"
        /\ gateway_posts = 0

C10_Witness ==
    /\ Done /\ AllChecksPass
    /\ ~env["TELEGRAM_CHAT_ID"].set
    /\ env["TELEGRAM_BOT_TOKEN"].set
    /\ response.status = 502
    /\ gateway_posts = 0

(* The verification algorithm as specified: the signature is compared     *)
(* with the HMAC of str(t), the canonical text of the parsed timestamp.    *)
SpecAccepts(token, t) ==
    LET parts == split_dot(token)
    IN  /\ Len(parts) = 2
        /\ int(parts[1]).ok
        /\ int(parts[1]).val <= t
        /\ t - int(parts[1]).val <= FORM_TOKEN_TTL_SECONDS
        /\ parts[2] = hmac_hexdigest(FORM_TOKEN_SECRET, Str(int(parts[1]).val))

(* C15: _verify_form_token returns true exactly when the specified         *)
(* algorithm accepts, for every token string, also when the timestamp text *)
(* parses to t without being the canonical decimal text of t.              *)
C15_MatchesSpecAlgorithm ==
    Called => (vcall.result = "True" <=> SpecAccepts(vcall.token, vcall.at))

(* C16: use does not invalidate a token: a token that a returned call     *)
(* accepted is accepted by every later call made while now - t <= 1800,    *)
(* and an issued token is still accepted after later tokens were issued.   *)
C16_NotInvalidatedByUse ==
    /\ (/\ CalledOnTimestamped
        /\ vcall.token \in accepted
        /\ vcall.at - CalledTimestamp <= FORM_TOKEN_TTL_SECONDS) => vcall.result = "True"
    /\ \A i, j \in issued :
          (/\ Called
           /\ vcall.token = i.token
           /\ i.t < j.t /\ j.t <= vcall.at
           /\ vcall.at - i.t <= FORM_TOKEN_TTL_SECONDS) => vcall.result = "True"

(* The older of two issued tokens, accepted once already, is accepted      *)
(* again at a later instant.                                               *)
C16_Witness ==
    \E i, j \in issued :
        /\ i.t < j.t
        /\ i.token \in accepted
        /\ vcall.token = i.token
        /\ vcall.at > j.t
        /\ vcall.result = "True"

----------------------------------------------------------------------------
(* Dispatch to the gateway.                                                *)

(* The gateway took the message: a response with a 2xx status.             *)
Delivered(gw) == gw.kind = "response" /\ 200 <= gw.code /\ gw.code < 300

(* The gateway was asked and did not take the message.                     *)
AttemptFailed == gateway_posts > 0 /\ ~Delivered(gateway_answer)

(* C11: a submission causes at most one send call and at most one request  *)
(* to the gateway; when that attempt fails the handler answers 502 with    *)
(* the detail the send call reported, unchanged, and asks no second time.  *)
C11_SingleAttempt ==
    /\ send_calls <= 1
    /\ gateway_posts <= 1
    /\ (Done /\ AttemptFailed) =>
          response = [kind |-> "json", status |-> 502, ok |-> FALSE,
                      error |-> _send_telegram_message(outbound, gateway_answer).err]

C11_Witness ==
    /\ Done /\ AllChecksPass
    /\ gateway_posts = 1
    /\ gateway_answer.kind = "URLError"
    /\ response.status = 502
    /\ contains(response.error, gateway_answer.body)
    /\ Head(response.error) = "Telegram request failed: "

(* The gateway answered the sendMessage call with a status outside 2xx.    *)
AnsweredNon2xx ==
    /\ gateway_posts > 0
    /\ gateway_answer.kind \in {"response", "HTTPError"}
    /\ ~(200 <= gateway_answer.code /\ gateway_answer.code < 300)

(* C12: whenever the gateway answers with a non-2xx status, the failure    *)
(* detail of the 502 response holds both the status code and the body the  *)
(* gateway sent.                                                           *)
C12_DetailHasStatusAndBody ==
    (Done /\ AnsweredNon2xx) =>
        /\ response.status = 502
        /\ contains(response.error, Str(gateway_answer.code))
        /\ contains(response.error, gateway_answer.body)

(* Every check passed and the gateway took the message.                    *)
Dispatched == AllChecksPass /\ gateway_posts = 1 /\ Delivered(gateway_answer)

(* Every check passed and the message was not delivered.                   *)
DispatchFailed == AllChecksPass /\ ~(gateway_posts = 1 /\ Delivered(gateway_answer))

(* C13: the status of a POST /api/lead response is fixed by the outcome:   *)
(* 200 with ok true exactly when every check passed and the dispatch       *)
(* succeeded, 403 exactly for invalid_form_token, 413 exactly for          *)
(* payload_too_large, 502 exactly for a dispatch failure, 400 for every    *)
(* other rejection; every non-200 response has ok false and an error field.*)
C13_StatusByOutcome ==
    Done =>
        /\ response.kind = "json"
        /\ response.status \in {200, 400, 403, 413, 502}
        /\ response.status = 200 <=> Dispatched
        /\ response.status = 403 <=> FirstFailing = "invalid_form_token"
        /\ response.status = 413 <=> FirstFailing = "payload_too_large"
        /\ response.status = 502 <=> DispatchFailed
        /\ response.status = 200 => response.ok
        /\ response.status # 200 => ~response.ok /\ response.error # <<>>

----------------------------------------------------------------------------
(* Decoding.                                                               *)

DeclaredJson ==
    contains(lower(IF request.content_type.set THEN request.content_type.text ELSE <<>>),
             APPLICATION_JSON)

(* The body was handed to the decoder of the declared content type and is  *)
(* not text of that syntax.                                                *)
DecodeFails ==
    /\ decoded
    /\ IF DeclaredJson THEN request.body.syntax # "json"
       ELSE request.body.syntax = "malformed"

ReasonCodes ==
    {"invalid_content_length", "payload_too_large", "required_fields", "consent_required",
     "invalid_form_token", "invalid_first_name", "invalid_email", "invalid_phone",
     "message_too_long"}

(* C14: a body that fails to decode under the declared content type is     *)
(* handled as an empty field set and rejected with 400 required_fields; no *)
(* rejection carries a code of its own for a malformed body.               *)
C14_UndecodableIsEmpty ==
    /\ (Done /\ DecodeFails) =>
          /\ Data = EmptyDict
          /\ response = fail(400, "required_fields")
    /\ Rejected => \E c \in ReasonCodes : response.error = <<c>>

(* Form-encoded text sent as application/json.                             *)
C14_Witness ==
    /\ Done /\ DecodeFails
    /\ DeclaredJson
    /\ request.body.syntax = "form"
    /\ request.body.value.fields = ValidFields
    /\ response = fail(400, "required_fields")

----------------------------------------------------------------------------
(* Field checks.                                                           *)

(* The request was decoded to a dict of text fields and all four required  *)
(* fields are present.                                                     *)
PresencePassed ==
    /\ Done /\ decoded
    /\ Data.top = "dict" /\ ~Crashes
    /\ ~PresenceFails

(* The values of the closed set, each with its own type.                   *)
ConsentLiterals ==
    {VBool(TRUE), VStr(<<"t", "r", "u", "e">>), VStr(<<"o", "n">>), VStr(<<"1">>), VInt(1)}

(* C17: given that the presence check passed, the consent check passes     *)
(* exactly when the decoded consent value is boolean true, one of the      *)
(* strings "true", "on", "1", or the integer 1; every other value of any   *)
(* type is rejected with 400 consent_required.                             *)
C17_ConsentClosedSet ==
    PresencePassed =>
        (Data.fields.consent \notin ConsentLiterals
            <=> response = fail(400, "consent_required"))

(* Presence, consent and token checks passed: first_name is looked at.     *)
NameChecked ==
    /\ PresencePassed
    /\ ~ConsentFails
    /\ verify_clock >= 0 /\ ~TokenFails

(* C18: with presence, consent and token checks passed, a trimmed          *)
(* first_name of exactly 60 letters, hyphens and whitespace passes the     *)
(* first_name check, one of 61 or more characters is rejected with         *)
(* invalid_first_name, and so is one that contains a digit.                *)
C18_FirstNameBoundary ==
    NameChecked =>
        LET name == Field("first_name")
        IN  /\ (Len(name) = MAX_FIRST_NAME_LEN
                  /\ \A i \in 1..Len(name) : name[i] \in NameChars)
                    => response # fail(400, "invalid_first_name")
            /\ Len(name) > MAX_FIRST_NAME_LEN
                    => response = fail(400, "invalid_first_name")
            /\ (\E i \in 1..Len(name) : name[i] \in Digits)
                    => response = fail(400, "invalid_first_name")

(* A name of 60 characters, sent inside whitespace, is delivered.          *)
C18_Witness ==
    /\ NameChecked
    /\ Data.fields.first_name = VStr(PaddedName60)
    /\ Len(Field("first_name")) = MAX_FIRST_NAME_LEN
    /\ response.status = 200

----------------------------------------------------------------------------
(* The message handed to the gateway.                                      *)

MarkupChars == {"&", "<", ">", "\"", "'"}
Entities ==
    {<<"&", "a", "m", "p", ";">>, <<"&", "l", "t", ";">>, <<"&", "g", "t", ";">>,
     <<"&", "q", "u", "o", "t", ";">>, <<"&", "#", "x", "2", "7", ";">>}

(* The number of positions of s that hold a character of set.              *)
Count(s, set) == Cardinality({i \in 1..Len(s) : s[i] \in set})

(* An entity starts at position i of s.                                    *)
EntityAt(s, i) ==
    \E e \in Entities : i + Len(e) - 1 <= Len(s) /\ SubSeq(s, i, i + Len(e) - 1) = e

(* The outbound text after the title line.                                 *)
AfterTitle == SubSeq(outbound, Len(TITLE) + 1, Len(outbound))

UserFields == {"first_name", "email", "phone", "message"}

(* C19: in every message handed to the gateway the only markup is the      *)
(* fixed title: after it no "<" or ">" occurs, every "&" starts an entity, *)
(* and there is one entity for each markup character of the four fields.   *)
C19_FieldsEscaped ==
    send_calls > 0 =>
        /\ SubSeq(outbound, 1, Len(TITLE)) = TITLE
        /\ \A i \in 1..Len(AfterTitle) :
              /\ AfterTitle[i] \notin {"<", ">"}
              /\ AfterTitle[i] = "&" => EntityAt(AfterTitle, i)
        /\ \A k \in UserFields :
              contains(AfterTitle, html_escape(Field(k)))
        /\ Count(AfterTitle, {"&"}) =
              Count(Field("first_name") \o Field("email") \o Field("phone")
                        \o Field("message"), MarkupChars)

C19_Witness ==
    /\ Done
    /\ gateway_posts = 1
    /\ Field("email") = MarkupEmail
    /\ Field("message") = MarkupMessage
    /\ Count(outbound, {"<"}) = 2

----------------------------------------------------------------------------
(* Requests in flight together, checked under ConcurrentSpec.              *)

(* The response to request req handled alone, its token verified at clock  *)
(* value t and its sendMessage call answered by gw.                        *)
Alone(req, t, gw) ==
    IF check_content_length(req) # NoResponse THEN check_content_length(req)
    ELSE IF check_body_length(req) # NoResponse THEN check_body_length(req)
    ELSE handle_data(decode(req), t, gw).response

(* C20: however the handling of two requests and the page renders are      *)
(* interleaved, the response to each request is the one it gets alone: a   *)
(* function of its own headers and body, the clock value it read, the      *)
(* configuration, and the gateway's answer to its own call.                *)
C20_RequestsIndependent ==
    \A f \in {Frame, other} :
        f.pc = "done" => f.response = Alone(f.request, f.verify_clock, f.gateway_answer)

(* Two requests are finished at once, one delivered and one refused for    *)
(* its token, the refused one verified at a later clock value.             *)
C20_Witness ==
    /\ pc = "done" /\ other.pc = "done"
    /\ response.status = 200
    /\ other.response = fail(403, "invalid_form_token")
    /\ other.verify_clock > verify_clock
    /\ issued # {}

====
